---- MODULE Spec2Model ----
(***************************************************************************)
(* Cache-and-sync core of the farmer data aggregator: the expiry cache     *)
(* (services/cache_manager.py), the weather fetch-or-cache service         *)
(* (services/weather_service.py), the sync queue and offline coordinator   *)
(* (services/offline_manager.py) and the connectivity monitor              *)
(* (utils/connectivity.py).                                                *)
(*                                                                         *)
(* Time is counted in hours.  Tables are sets of rows keyed by the integer *)
(* primary key; a query without ORDER BY returns rows in the order of the  *)
(* SQLite index it is answered from (rowid order when nothing else).       *)
(***************************************************************************)
EXTENDS Integers, Sequences, FiniteSets, TLC

VARIABLES
    now,            \* the wall clock (datetime.utcnow()), in hours
    lastOp,         \* name of the operation the last step performed
    ret,            \* rows returned by the last operation (<<>> when none)
    \* --- persistent store: sync queue (database/models.py SyncQueue)
    sync_queue,     \* table sync_queue: set of SyncQueue rows
    enq_order,      \* ids of the stored sync rows in the order they were enqueued
    retry_limit,    \* the retry limit a drain passes to mark_sync_as_failed
    fail_call,      \* the latest step, when it was a mark_sync_as_failed call that
                    \* found its row: the arguments and the row it found
    db_error,       \* the latest step was a sync queue call whose storage raised
    \* --- ConnectivityManager (utils/connectivity.py)
    is_online,      \* ConnectivityManager.is_online
    connectivity_callbacks, \* ConnectivityManager._connectivity_callbacks
    probes,         \* results of the probes made so far, oldest first
    cb_log,         \* per callback: the values it was invoked with since it registered
    notified,       \* invocations of ConnectivityManager callbacks made by the
                    \* latest probe, in the order they were made
    reg_base,       \* per callback: number of probes made and is_online when it registered
    \* --- OfflineManager (services/offline_manager.py)
    is_offline,     \* OfflineManager.is_offline
    offline_mode,   \* UserSettings.offline_mode of the settings row (id = 1)
    sync_callbacks, \* OfflineManager._callbacks
    sync_notified,  \* invocations of OfflineManager callbacks made by the last step
    stop_checking,  \* OfflineManager._stop_checking
    loops,          \* number of live _monitor_connectivity threads
    sleeps,         \* the waits, in seconds, that ended the loop iterations so far
    raising,        \* the subscribers whose callback raises when it is invoked
    \* --- persistent store: cache tables (database/models.py)
    soil_data,      \* table soil_data: set of SoilData rows
    weather_data,   \* table weather_data: set of WeatherData rows
    market_data,    \* table market_data: set of MarketData rows
    recommendations,\* table recommendations: set of Recommendation rows
    inserted,       \* number of cache rows inserted so far
    row_budget,     \* number of cache rows one run may insert
    cache_ttl,      \* the cache lifetimes config/settings.py read from the environment
    sweep_call,     \* the latest step, when it was a sweep that succeeded: the
                    \* table and the rows it held when the sweep began
    ws_call,        \* the latest step, when it was a WeatherService call: its
                    \* arguments, the outcome of the live fetch and the source served
    put_call,       \* the latest step, when it was a put with the get that
                    \* follows it at once: the table and the rows the put added
    \* --- threads of the process
    threads         \* per thread that is in the middle of a call: the call, the
                    \* statement it has reached and the local values it holds

syncVars == <<sync_queue, enq_order, retry_limit, fail_call, db_error>>
monitorVars == <<is_online, connectivity_callbacks, probes, cb_log, notified, reg_base>>
offlineVars == <<is_offline, offline_mode, sync_callbacks, sync_notified, stop_checking,
                 loops, sleeps>>
connVars == <<monitorVars, offlineVars, raising>>
tables == <<soil_data, weather_data, market_data, recommendations>>
cacheVars == <<tables, inserted, row_budget, cache_ttl, sweep_call, ws_call, put_call>>
vars == <<now, lastOp, ret, syncVars, connVars, cacheVars, threads>>
outsideSync == <<connVars, cacheVars, threads>>
outsideConn == <<syncVars, cacheVars, raising, threads>>
outsideCache == <<syncVars, connVars, row_budget, cache_ttl, threads>>

\* ------------------------------------------------------------------ bounds
MaxSyncId == 2      \* largest primary key the sync_queue table hands out
MaxRetry == 3       \* cap on retry_count under unrestricted fail calls
SyncHorizon == 1    \* clock ticks while the queue drains
MaxProbes == 4      \* connectivity probes in one run
MaxLoops == 2       \* polling threads alive at once
MaxCacheRows == 2   \* cache rows inserted in one run, all tables together
MaxBatch == 2       \* records in one put
MaxDay == 1         \* calendar days whose midnight the clock stops at
MaxForecastRows == 10 \* weather rows inserted in one run of the forecast service
MaxFailCalls == 1   \* mark_sync_as_failed calls of one dispatcher for one item
MaxOpenSessions == 2 \* sessions open at once that one run follows
MaxSweepRows == 3   \* cache rows inserted in one run of the repeated sweeps
ScenarioHorizon == 8 \* hours the clock of the weather scenario runs
ScenarioBatches == 2 \* forecasts put in the weather scenario

DEFAULT_RETRY_LIMIT == 3
SOIL_CACHE_DAYS == 30
WEATHER_CACHE_HOURS == 6
MARKET_CACHE_HOURS == 24
RECOMMENDATION_CACHE_DAYS == 7
HoursPerDay == 24
CONNECTIVITY_CHECK_INTERVAL == 300 \* seconds slept after an iteration
ERROR_BACKOFF == 60                \* seconds slept after an iteration that raised
MaxForecastDays == 7

EntityTypes == {"field"}
EntityIds == {1}
SyncActions == {"update"}
Payloads == {"{}"}
NoTime == -1        \* a NULL timestamp column

\* ------------------------------------------------------------ initial state
NoOp == "init"
NoCall == [id |-> 0, limit |-> 0, found |-> {}]
NoBase == [at |-> 0, online |-> FALSE]
NoWsCall == [op |-> "none", latitude |-> 0, longitude |-> 0, days |-> 0,
             force_refresh |-> FALSE, fetch |-> "none", source |-> "none",
             db_ok |-> TRUE, rows |-> <<>>, cached |-> <<>>, all_cached |-> <<>>]
NoPut == [table |-> "none", rows |-> {}]
NoThreads == <<>>                   \* every call runs from its first statement to its return
Callbacks == {"cbA", "cbB"}         \* subscribers of the ConnectivityManager
SyncCallbacks == {"syncA", "syncB"} \* subscribers of the OfflineManager

\* ConnectivityManager.__init__ and OfflineManager.__init__ on a fresh database.
InitManagers ==
    /\ is_online = FALSE
    /\ connectivity_callbacks = <<>>
    /\ probes = <<>>
    /\ cb_log = [cb \in Callbacks |-> <<>>]
    /\ notified = <<>>
    /\ reg_base = [cb \in Callbacks |-> NoBase]
    /\ is_offline = FALSE
    /\ offline_mode = FALSE
    /\ sync_callbacks = <<>>
    /\ sync_notified = <<>>
    /\ stop_checking = FALSE
    /\ loops = 0
    /\ sleeps = <<>>

\* The two managers with subscribers that never raise.
InitConn ==
    /\ InitManagers
    /\ raising = {}

\* The cache lifetimes when the environment sets none of them.
DefaultTTL ==
    [SOIL_CACHE_DAYS |-> SOIL_CACHE_DAYS, WEATHER_CACHE_HOURS |-> WEATHER_CACHE_HOURS,
     MARKET_CACHE_HOURS |-> MARKET_CACHE_HOURS,
     RECOMMENDATION_CACHE_DAYS |-> RECOMMENDATION_CACHE_DAYS]

\* The cache tables of a fresh database.
InitTables ==
    /\ soil_data = {}
    /\ weather_data = {}
    /\ market_data = {}
    /\ recommendations = {}
    /\ inserted = 0
    /\ sweep_call = <<>>
    /\ ws_call = NoWsCall
    /\ put_call = NoPut

InitCache ==
    /\ InitTables
    /\ row_budget = MaxCacheRows
    /\ cache_ttl = DefaultTTL

\* ----------------------------------------------------------------- helpers
SetMax(S) == CHOOSE m \in S : \A x \in S : x <= m

\* The integer primary key SQLite gives a new row: largest rowid in the table + 1.
NewId(table) == IF table = {} THEN 1 ELSE SetMax({r.id : r \in table}) + 1

\* Rows of a set in rowid order: what a SELECT without ORDER BY yields when it is
\* answered from the table or from an index on equal key values.
RECURSIVE RowidOrder(_)
RowidOrder(S) ==
    IF S = {} THEN <<>>
    ELSE LET m == CHOOSE r \in S : \A q \in S : r.id <= q.id
         IN  <<m>> \o RowidOrder(S \ {m})

SeqToSet(s) == {s[i] : i \in 1..Len(s)}

\* ------------------------------------------------------------- sync queue
\* session.query(SyncQueue).filter_by(id=sync_id).first()
SyncItem(q, sync_id) == {r \in q : r.id = sync_id}

\* OfflineManager.queue_for_sync: one new pending row, retry_count 0.
NewSyncRow(q, entity_type, entity_id, action, payload, t) ==
    [id |-> NewId(q), entity_type |-> entity_type, entity_id |-> entity_id,
     action |-> action, payload |-> payload, status |-> "pending",
     retry_count |-> 0, created_at |-> t, synced_at |-> NoTime]

\* An enqueue that keeps a single pending row per entity and action.
queue_for_sync_dedup(q, entity_type, entity_id, action, payload, t) ==
    IF \E r \in q : /\ r.status = "pending"
                    /\ r.entity_type = entity_type
                    /\ r.entity_id = entity_id
                    /\ r.action = action
    THEN q
    ELSE q \cup {NewSyncRow(q, entity_type, entity_id, action, payload, t)}

\* session.add(sync_item); session.commit(): the table with the new row.
queue_for_sync_rows(q, entity_type, entity_id, action, payload, t) ==
    q \cup {NewSyncRow(q, entity_type, entity_id, action, payload, t)}

Reverse(s) == [i \in 1..Len(s) |-> s[Len(s) + 1 - i]]

\* A variant of get_pending_syncs that lists the newest row first.
get_pending_syncs_newest_first(q) == Reverse(RowidOrder({r \in q : r.status = "pending"}))

\* OfflineManager.get_pending_syncs: filter_by(status='pending').all()
get_pending_syncs_rows(q) == RowidOrder({r \in q : r.status = "pending"})

\* OfflineManager.get_failed_syncs: filter_by(status='failed').all()
get_failed_syncs_rows(q) == RowidOrder({r \in q : r.status = "failed"})

\* OfflineManager.mark_sync_as_syncing: the row, when it exists, becomes syncing.
mark_sync_as_syncing_rows(q, sync_id) ==
    {IF r.id = sync_id THEN [r EXCEPT !.status = "syncing"] ELSE r : r \in q}

\* OfflineManager.mark_sync_as_completed: status completed, synced_at stamped.
mark_sync_as_completed_rows(q, sync_id, t) ==
    {IF r.id = sync_id
        THEN [r EXCEPT !.status = "completed", !.synced_at = t]
        ELSE r : r \in q}

\* A variant of StatusAfterFail that gives up only above the limit.
StatusAfterFail_above_limit(retry_count, limit) ==
    IF retry_count > limit THEN "failed" ELSE "pending"

\* The status mark_sync_as_failed chooses after the increment.
StatusAfterFail(retry_count, limit) ==
    IF retry_count >= limit THEN "failed" ELSE "pending"

\* A variant of mark_sync_as_failed that compares the count before incrementing it.
mark_sync_as_failed_stale_count(q, sync_id, limit) ==
    {IF r.id = sync_id
        THEN [r EXCEPT !.retry_count = r.retry_count + 1,
                       !.status = StatusAfterFail(r.retry_count, limit)]
        ELSE r : r \in q}

\* OfflineManager.mark_sync_as_failed: retry_count += 1, then failed or pending.
mark_sync_as_failed_rows(q, sync_id, limit) ==
    {IF r.id = sync_id
        THEN [r EXCEPT !.retry_count = r.retry_count + 1,
                       !.status = StatusAfterFail(r.retry_count + 1, limit)]
        ELSE r : r \in q}

\* A purge that also deletes the failed rows.
clear_finished_syncs_rows(q) == {r \in q : r.status \notin {"completed", "failed"}}

\* OfflineManager.clear_completed_syncs
clear_completed_syncs_rows(q) == {r \in q : r.status # "completed"}

\* OfflineManager.get_sync_stats: the five counts.
StatKeys == {"total", "pending", "syncing", "completed", "failed"}
get_sync_stats_counts(q) ==
    [k \in StatKeys |-> IF k = "total" THEN Cardinality(q)
                        ELSE Cardinality({r \in q : r.status = k})]

\* A session whose changes reach the table although its commit raised.
committed_anyway(ok, before, after) == after
\* session.commit() inside try/except: the rows the session changed become
\* the stored table when the commit succeeds; when the session, the query or
\* the commit raises (ok = FALSE) the transaction is never committed and the
\* table stays as it was.
committed(ok, before, after) == IF ok THEN after ELSE before

\* ---------------------------------------------------- sync queue: actions
\* Every operation runs inside try/except: a storage error (ok = FALSE) is logged
\* and the call changes nothing.
QueueForSync(entity_type, entity_id, action, payload, ok) ==
    /\ NewId(sync_queue) <= MaxSyncId
    /\ sync_queue' = committed(ok, sync_queue,
          queue_for_sync_rows(sync_queue, entity_type, entity_id, action, payload, now))
    /\ enq_order' = IF ok THEN Append(enq_order, NewId(sync_queue)) ELSE enq_order
    /\ lastOp' = "queue_for_sync"
    /\ fail_call' = NoCall
    /\ db_error' = ~ok
    /\ ret' = <<>>
    /\ UNCHANGED <<now, retry_limit, outsideSync>>

GetPendingSyncs(ok) ==
    /\ ret' = IF ok THEN get_pending_syncs_rows(sync_queue) ELSE <<>>
    /\ lastOp' = "get_pending_syncs"
    /\ fail_call' = NoCall
    /\ db_error' = ~ok
    /\ UNCHANGED <<now, sync_queue, enq_order, retry_limit, outsideSync>>

GetFailedSyncs(ok) ==
    /\ ret' = IF ok THEN get_failed_syncs_rows(sync_queue) ELSE <<>>
    /\ lastOp' = "get_failed_syncs"
    /\ fail_call' = NoCall
    /\ db_error' = ~ok
    /\ UNCHANGED <<now, sync_queue, enq_order, retry_limit, outsideSync>>

\* OfflineManager.get_sync_stats: the mapping of counts, {} on a storage error.
GetSyncStats(ok) ==
    /\ ret' = IF ok THEN get_sync_stats_counts(sync_queue) ELSE <<>>
    /\ lastOp' = "get_sync_stats"
    /\ fail_call' = NoCall
    /\ db_error' = ~ok
    /\ UNCHANGED <<now, sync_queue, enq_order, retry_limit, outsideSync>>

MarkSyncAsSyncing(sync_id, ok) ==
    /\ sync_queue' = committed(ok, sync_queue,
                                mark_sync_as_syncing_rows(sync_queue, sync_id))
    /\ lastOp' = "mark_sync_as_syncing"
    /\ fail_call' = NoCall
    /\ db_error' = ~ok
    /\ ret' = <<>>
    /\ UNCHANGED <<now, enq_order, retry_limit, outsideSync>>

MarkSyncAsCompleted(sync_id, ok) ==
    /\ sync_queue' = committed(ok, sync_queue,
                                mark_sync_as_completed_rows(sync_queue, sync_id, now))
    /\ lastOp' = "mark_sync_as_completed"
    /\ fail_call' = NoCall
    /\ db_error' = ~ok
    /\ ret' = <<>>
    /\ UNCHANGED <<now, enq_order, retry_limit, outsideSync>>

MarkSyncAsFailed(sync_id, limit, ok) ==
    /\ \A r \in SyncItem(sync_queue, sync_id) : r.retry_count < MaxRetry
    /\ sync_queue' = committed(ok, sync_queue,
                                mark_sync_as_failed_rows(sync_queue, sync_id, limit))
    /\ lastOp' = "mark_sync_as_failed"
    /\ fail_call' = IF ok /\ SyncItem(sync_queue, sync_id) # {}
          THEN [id |-> sync_id, limit |-> limit, found |-> SyncItem(sync_queue, sync_id)]
          ELSE NoCall
    /\ db_error' = ~ok
    /\ ret' = <<>>
    /\ UNCHANGED <<now, enq_order, retry_limit, outsideSync>>

ClearCompletedSyncs(ok) ==
    /\ sync_queue' = committed(ok, sync_queue, clear_completed_syncs_rows(sync_queue))
    /\ enq_order' = SelectSeq(enq_order, LAMBDA i : \E r \in sync_queue' : r.id = i)
    /\ lastOp' = "clear_completed_syncs"
    /\ fail_call' = NoCall
    /\ db_error' = ~ok
    /\ ret' = <<>>
    /\ UNCHANGED <<now, retry_limit, outsideSync>>

\* The clock of the drain specification.
SyncTick ==
    /\ now < SyncHorizon
    /\ now' = now + 1
    /\ lastOp' = "tick"
    /\ fail_call' = NoCall
    /\ db_error' = FALSE
    /\ ret' = <<>>
    /\ UNCHANGED <<sync_queue, enq_order, retry_limit, outsideSync>>

SyncIds == 1..MaxSyncId
RetryLimits == 0..DEFAULT_RETRY_LIMIT

InitSync ==
    /\ now = 0
    /\ sync_queue = {}
    /\ enq_order = <<>>
    /\ retry_limit = DEFAULT_RETRY_LIMIT
    /\ fail_call = NoCall
    /\ db_error = FALSE
    /\ threads = NoThreads
    /\ lastOp = NoOp
    /\ ret = <<>>
    /\ InitConn
    /\ InitCache

NextSync ==
    \/ \E et \in EntityTypes, eid \in EntityIds, a \in SyncActions, p \in Payloads,
          ok \in BOOLEAN : QueueForSync(et, eid, a, p, ok)
    \/ \E ok \in BOOLEAN : GetPendingSyncs(ok)
    \/ \E ok \in BOOLEAN : GetFailedSyncs(ok)
    \/ \E id \in SyncIds, ok \in BOOLEAN : MarkSyncAsSyncing(id, ok)
    \/ \E id \in SyncIds, ok \in BOOLEAN : MarkSyncAsCompleted(id, ok)
    \/ \E id \in SyncIds, limit \in RetryLimits, ok \in BOOLEAN :
          MarkSyncAsFailed(id, limit, ok)
    \/ \E ok \in BOOLEAN : ClearCompletedSyncs(ok)
    \/ \E ok \in BOOLEAN : GetSyncStats(ok)

\* Any caller, any order of calls on the sync queue, at one instant.
SpecSync == InitSync /\ [][NextSync]_vars

\* ------------------------------------------------- sync queue: the drain
\* The drain discipline of the coordinator: one dispatcher, which marks only
\* pending items as syncing, completes or fails only the item it dispatched,
\* and passes one retry limit to every fail call.
DrainDispatch(sync_id, ok) ==
    /\ \E r \in sync_queue : r.id = sync_id /\ r.status = "pending"
    /\ MarkSyncAsSyncing(sync_id, ok)

DrainComplete(sync_id, ok) ==
    /\ \E r \in sync_queue : r.id = sync_id /\ r.status = "syncing"
    /\ MarkSyncAsCompleted(sync_id, ok)

DrainFail(sync_id, ok) ==
    /\ \E r \in sync_queue : r.id = sync_id /\ r.status = "syncing"
    /\ MarkSyncAsFailed(sync_id, retry_limit, ok)

InitDrain ==
    /\ now = 0
    /\ sync_queue = {}
    /\ enq_order = <<>>
    /\ retry_limit \in RetryLimits
    /\ fail_call = NoCall
    /\ db_error = FALSE
    /\ threads = NoThreads
    /\ lastOp = NoOp
    /\ ret = <<>>
    /\ InitConn
    /\ InitCache

NextDrain ==
    \/ \E et \in EntityTypes, eid \in EntityIds, a \in SyncActions, p \in Payloads,
          ok \in BOOLEAN : QueueForSync(et, eid, a, p, ok)
    \/ \E ok \in BOOLEAN : GetPendingSyncs(ok)
    \/ \E id \in SyncIds, ok \in BOOLEAN : DrainDispatch(id, ok)
    \/ \E id \in SyncIds, ok \in BOOLEAN : DrainComplete(id, ok)
    \/ \E id \in SyncIds, ok \in BOOLEAN : DrainFail(id, ok)
    \/ \E ok \in BOOLEAN : ClearCompletedSyncs(ok)
    \/ SyncTick

SpecDrain == InitDrain /\ [][NextDrain]_vars

\* ------------------------------------- sync queue: one limit, any caller
NextFixedLimit ==
    \/ \E et \in EntityTypes, eid \in EntityIds, a \in SyncActions, p \in Payloads,
          ok \in BOOLEAN : QueueForSync(et, eid, a, p, ok)
    \/ \E ok \in BOOLEAN : GetPendingSyncs(ok)
    \/ \E ok \in BOOLEAN : GetFailedSyncs(ok)
    \/ \E id \in SyncIds, ok \in BOOLEAN : MarkSyncAsSyncing(id, ok)
    \/ \E id \in SyncIds, ok \in BOOLEAN : MarkSyncAsCompleted(id, ok)
    \/ \E id \in SyncIds, ok \in BOOLEAN : MarkSyncAsFailed(id, retry_limit, ok)
    \/ \E ok \in BOOLEAN : ClearCompletedSyncs(ok)

\* Any caller, any order of calls on the sync queue, every fail call passing
\* the one retry limit chosen at the start.
SpecFixedLimit == InitDrain /\ [][NextFixedLimit]_vars

\* ------------------------------------------------ sync queue: two dispatchers
\* Two threads call the queue methods at once.  A mark_* method is two
\* statements on a session of its own: the query that loads the row, and the
\* commit that writes the attributes the method assigned.  Storage errors are
\* left aside here.
Dispatchers == {"d1", "d2"}

\* picked: the pending item the dispatcher read and is about to mark;
\* loaded: the row its session holds; dispatching: the items whose
\* mark_sync_as_syncing returned to it; fails: per item, its
\* mark_sync_as_failed calls that committed.
IdleDispatcher ==
    [call |-> "none", sync_id |-> 0, loaded |-> {}, picked |-> 0, dispatching |-> {},
     fails |-> [id \in SyncIds |-> 0]]

\* session.commit(): UPDATE sync_queue SET <the attributes whose value the
\* method changed> WHERE id = <the loaded row's id>.
session_flush(q, loaded, changed) ==
    {IF \E c \in changed : c.id = r.id
        THEN LET c == CHOOSE c \in changed : c.id = r.id
                 o == CHOOSE o \in loaded : o.id = r.id
             IN  [r EXCEPT !.status = IF c.status # o.status THEN c.status ELSE @,
                           !.retry_count = IF c.retry_count # o.retry_count
                                           THEN c.retry_count ELSE @]
        ELSE r : r \in q}

DispatcherFrame(op) ==
    /\ lastOp' = op
    /\ fail_call' = NoCall
    /\ db_error' = FALSE
    /\ UNCHANGED <<now, enq_order, retry_limit, connVars, cacheVars>>

\* pending = get_pending_syncs(); the dispatcher takes one item of the list.
DispatcherReadsPending(d, i) ==
    /\ threads[d].call = "none"
    /\ threads[d].picked = 0
    /\ i \in 1..Len(get_pending_syncs_rows(sync_queue))
    /\ threads' = [threads EXCEPT ![d].picked = get_pending_syncs_rows(sync_queue)[i].id]
    /\ ret' = get_pending_syncs_rows(sync_queue)
    /\ DispatcherFrame("get_pending_syncs")
    /\ UNCHANGED sync_queue

\* mark_sync_as_syncing(picked), statement 1: .filter_by(id=sync_id).first()
LoadForSyncing(d) ==
    /\ threads[d].call = "none"
    /\ threads[d].picked # 0
    /\ threads' = [threads EXCEPT ![d].call = "mark_sync_as_syncing",
                                  ![d].sync_id = threads[d].picked,
                                  ![d].loaded = SyncItem(sync_queue, threads[d].picked)]
    /\ ret' = <<>>
    /\ DispatcherFrame("mark_sync_as_syncing: query")
    /\ UNCHANGED sync_queue

\* mark_sync_as_syncing, statement 2: status = 'syncing'; commit; return None.
\* The caller goes on to dispatch the item.
CommitSyncing(d) ==
    /\ threads[d].call = "mark_sync_as_syncing"
    /\ sync_queue' = session_flush(sync_queue, threads[d].loaded,
                         mark_sync_as_syncing_rows(threads[d].loaded, threads[d].sync_id))
    /\ threads' = [threads EXCEPT
                      ![d].call = "none", ![d].sync_id = 0, ![d].loaded = {},
                      ![d].picked = 0,
                      ![d].dispatching = @ \cup {threads[d].sync_id}]
    /\ ret' = <<>>
    /\ DispatcherFrame("mark_sync_as_syncing")

\* mark_sync_as_failed(sync_id, retry_limit), statement 1: the query.
LoadForFailed(d, sync_id) ==
    /\ threads[d].call = "none"
    /\ threads[d].fails[sync_id] < MaxFailCalls
    /\ SyncItem(sync_queue, sync_id) # {}
    /\ threads' = [threads EXCEPT ![d].call = "mark_sync_as_failed",
                                  ![d].sync_id = sync_id,
                                  ![d].loaded = SyncItem(sync_queue, sync_id)]
    /\ ret' = <<>>
    /\ DispatcherFrame("mark_sync_as_failed: query")
    /\ UNCHANGED sync_queue

\* mark_sync_as_failed, statement 2: retry_count += 1 on the loaded row, the
\* status chosen from it, commit.
CommitFailed(d) ==
    /\ threads[d].call = "mark_sync_as_failed"
    /\ sync_queue' = session_flush(sync_queue, threads[d].loaded,
                         mark_sync_as_failed_rows(threads[d].loaded, threads[d].sync_id,
                                                  retry_limit))
    /\ threads' = [threads EXCEPT
                      ![d].call = "none", ![d].sync_id = 0, ![d].loaded = {},
                      ![d].fails[threads[d].sync_id] = @ + 1]
    /\ ret' = <<>>
    /\ DispatcherFrame("mark_sync_as_failed")

InitDispatchers ==
    /\ now = 0
    /\ sync_queue = {}
    /\ enq_order = <<>>
    /\ retry_limit = DEFAULT_RETRY_LIMIT
    /\ fail_call = NoCall
    /\ db_error = FALSE
    /\ threads = [d \in Dispatchers |-> IdleDispatcher]
    /\ lastOp = NoOp
    /\ ret = <<>>
    /\ InitConn
    /\ InitCache

NextDispatchers ==
    \/ \E et \in EntityTypes, eid \in EntityIds, a \in SyncActions, p \in Payloads :
          QueueForSync(et, eid, a, p, TRUE)
    \/ \E d \in Dispatchers, i \in 1..MaxSyncId : DispatcherReadsPending(d, i)
    \/ \E d \in Dispatchers : LoadForSyncing(d)
    \/ \E d \in Dispatchers : CommitSyncing(d)
    \/ \E d \in Dispatchers, id \in SyncIds : LoadForFailed(d, id)
    \/ \E d \in Dispatchers : CommitFailed(d)

\* Two dispatchers over one queue, their calls interleaved statement by statement.
SpecDispatchers == InitDispatchers /\ [][NextDispatchers]_vars

\* ------------------------------------------- sync queue: delivery by drains
DrainOutcomes == {"completed", "failed", "interrupted"}

\* What one drain does with one item of the list get_pending_syncs gave it:
\* mark_sync_as_syncing, then mark_sync_as_completed or mark_sync_as_failed
\* according to the dispatch; a drain interrupted after the first call makes
\* neither of the other two.
drain_item_rows(q, sync_id, outcome, limit, t) ==
    LET dispatched == mark_sync_as_syncing_rows(q, sync_id)
    IN  CASE outcome = "completed" -> mark_sync_as_completed_rows(dispatched, sync_id, t)
          [] outcome = "failed" -> mark_sync_as_failed_rows(dispatched, sync_id, limit)
          [] outcome = "interrupted" -> dispatched

DrainItem(sync_id, outcome) ==
    /\ \E i \in 1..Len(get_pending_syncs_rows(sync_queue)) :
           get_pending_syncs_rows(sync_queue)[i].id = sync_id
    /\ sync_queue' = drain_item_rows(sync_queue, sync_id, outcome, retry_limit, now)
    /\ lastOp' = "drain_item"
    /\ fail_call' = NoCall
    /\ db_error' = FALSE
    /\ ret' = <<>>
    /\ UNCHANGED <<now, enq_order, retry_limit, outsideSync>>

NextDelivery ==
    \/ \E et \in EntityTypes, eid \in EntityIds, a \in SyncActions, p \in Payloads,
          ok \in BOOLEAN : QueueForSync(et, eid, a, p, ok)
    \/ \E id \in SyncIds, outcome \in DrainOutcomes : DrainItem(id, outcome)
    \/ SyncTick

\* Connectivity comes back again and again and a drain runs each time: a
\* pending item does not wait forever for its dispatch.
SpecDelivery ==
    /\ InitDrain
    /\ [][NextDelivery]_vars
    /\ WF_vars(\E id \in SyncIds, outcome \in DrainOutcomes : DrainItem(id, outcome))

\* ------------------------------------------------- connectivity monitor

\* A notification without the try/except around each call: the first
\* exception ends the loop over the callbacks.
notify_connectivity_change_uncaught(callbacks, value) ==
    LET bad == {i \in 1..Len(callbacks) : callbacks[i] \in raising}
        last == IF bad = {} THEN Len(callbacks)
                ELSE CHOOSE i \in bad : \A j \in bad : i <= j
    IN  [i \in 1..last |-> <<callbacks[i], value>>]

\* _notify_connectivity_change: every callback of the list, in list order, is
\* called with the new value; an exception of one is caught and logged, and
\* the for loop goes on to the next callback.
notify_connectivity_change(callbacks, value) ==
    [i \in 1..Len(callbacks) |-> <<callbacks[i], value>>]

\* A variant of check_connectivity that notifies after every probe.
check_connectivity_calls_every_probe(online, reachable, callbacks) ==
    notify_connectivity_change(callbacks, reachable)

\* ConnectivityManager.check_connectivity: the callback invocations it makes.
\* reachable: socket.create_connection succeeded within the timeout.
check_connectivity_calls(online, reachable, callbacks) ==
    IF reachable
    THEN IF ~online THEN notify_connectivity_change(callbacks, TRUE) ELSE <<>>
    ELSE IF online THEN notify_connectivity_change(callbacks, FALSE) ELSE <<>>

\* ConnectivityManager.check_connectivity: is_online afterwards.
check_connectivity_state(online, reachable) ==
    IF reachable
    THEN IF ~online THEN TRUE ELSE online
    ELSE IF online THEN FALSE ELSE online

\* The values callback cb received in a sequence of invocations.
ValuesFor(cb, calls) ==
    LET mine == SelectSeq(calls, LAMBDA c : c[1] = cb)
    IN  [i \in 1..Len(mine) |-> mine[i][2]]

\* The effect of one check_connectivity call on the monitor.
Probe(reachable) ==
    LET calls == check_connectivity_calls(is_online, reachable, connectivity_callbacks)
    IN  /\ Len(probes) < MaxProbes
        /\ is_online' = check_connectivity_state(is_online, reachable)
        /\ probes' = Append(probes, reachable)
        /\ cb_log' = [cb \in Callbacks |-> cb_log[cb] \o ValuesFor(cb, calls)]
        /\ notified' = calls
        /\ UNCHANGED <<connectivity_callbacks, reg_base>>

\* utils.connectivity.is_online(): a foreground probe.
CheckConnectivity(reachable) ==
    /\ Probe(reachable)
    /\ lastOp' = "check_connectivity"
    /\ ret' = <<>>
    /\ UNCHANGED <<now, offlineVars, outsideConn>>

InList(x, list) == \E i \in 1..Len(list) : list[i] = x

\* ConnectivityManager.register_callback
RegisterCallback(cb) ==
    /\ connectivity_callbacks' =
          IF ~InList(cb, connectivity_callbacks)
          THEN Append(connectivity_callbacks, cb) ELSE connectivity_callbacks
    /\ IF ~InList(cb, connectivity_callbacks)
       THEN /\ cb_log' = [cb_log EXCEPT ![cb] = <<>>]
            /\ reg_base' = [reg_base EXCEPT ![cb] = [at |-> Len(probes),
                                                     online |-> is_online]]
       ELSE UNCHANGED <<cb_log, reg_base>>
    /\ lastOp' = "register_callback"
    /\ ret' = <<>>
    /\ UNCHANGED <<now, is_online, probes, notified, offlineVars, outsideConn>>


\* ConnectivityManager.unregister_callback
UnregisterCallback(cb) ==
    /\ connectivity_callbacks' = SelectSeq(connectivity_callbacks, LAMBDA c : c # cb)
    /\ cb_log' = [cb_log EXCEPT ![cb] = <<>>]
    /\ reg_base' = [reg_base EXCEPT ![cb] = NoBase]
    /\ lastOp' = "unregister_callback"
    /\ ret' = <<>>
    /\ UNCHANGED <<now, is_online, probes, notified, offlineVars, outsideConn>>

\* ---------------------------------------------------- offline coordinator
\* OfflineManager.start_connectivity_monitoring: a new polling thread.
StartConnectivityMonitoring ==
    /\ loops < MaxLoops
    /\ stop_checking' = FALSE
    /\ loops' = loops + 1
    /\ sync_notified' = <<>>
    /\ lastOp' = "start_connectivity_monitoring"
    /\ ret' = <<>>
    /\ UNCHANGED <<now, monitorVars, is_offline, offline_mode, sync_callbacks,
                   sleeps, outsideConn>>

\* OfflineManager.stop_connectivity_monitoring: sets the flag and joins for at
\* most 5 seconds; a loop that is asleep outlives the join.
StopConnectivityMonitoring ==
    /\ stop_checking' = TRUE
    /\ sync_notified' = <<>>
    /\ lastOp' = "stop_connectivity_monitoring"
    /\ ret' = <<>>
    /\ UNCHANGED <<now, monitorVars, is_offline, offline_mode, sync_callbacks, loops,
                   sleeps, outsideConn>>

\* A loop that never looks at the stop signal.
loop_continues_whatever(stop) == TRUE
\* _monitor_connectivity, line 47: while not self._stop_checking
loop_continues(stop) == ~stop

\* _monitor_connectivity: the while condition fails and the thread ends.
MonitorExit ==
    /\ loops > 0
    /\ ~loop_continues(stop_checking)
    /\ loops' = loops - 1
    /\ sync_notified' = <<>>
    /\ lastOp' = "monitor_exit"
    /\ ret' = <<>>
    /\ UNCHANGED <<now, monitorVars, is_offline, offline_mode, sync_callbacks,
                   stop_checking, sleeps, outsideConn>>

\* _monitor_connectivity, lines 49-62: is_offline after one iteration.
monitor_is_offline(offline, is_now_online) ==
    LET was_online == ~offline
    IN  IF was_online /\ ~is_now_online THEN TRUE
        ELSE IF ~was_online /\ is_now_online THEN FALSE
        ELSE offline

\* _monitor_connectivity, lines 49-62: the notifications of one iteration.
monitor_calls(offline, is_now_online, callbacks) ==
    LET was_online == ~offline
    IN  IF was_online /\ ~is_now_online
        THEN notify_connectivity_change(callbacks, FALSE)
        ELSE IF ~was_online /\ is_now_online
        THEN notify_connectivity_change(callbacks, TRUE)
        ELSE <<>>

\* One iteration of the _monitor_connectivity loop: the probe through
\* utils.connectivity.is_online(), then the coordinator's own transition.
MonitorIteration(reachable) ==
    /\ loops > 0
    /\ loop_continues(stop_checking)
    /\ Probe(reachable)
    /\ is_offline' = monitor_is_offline(is_offline, reachable)
    /\ sync_notified' = monitor_calls(is_offline, reachable, sync_callbacks)
    /\ sleeps' = Append(sleeps, CONNECTIVITY_CHECK_INTERVAL)
    /\ lastOp' = "monitor_connectivity"
    /\ ret' = <<>>
    /\ UNCHANGED <<now, offline_mode, sync_callbacks, stop_checking, loops,
                   outsideConn>>

\* _monitor_connectivity, lines 65-67: the except clause is inside the while
\* loop, so the thread that caught the exception goes on looping.
threads_after_error(n) == n

\* One iteration of the loop whose body raises before the coordinator's
\* transition (is_online() raising anything but a socket error, which
\* check_connectivity itself turns into a failed probe): the except clause
\* logs and sleeps ERROR_BACKOFF seconds.
MonitorError ==
    /\ loops > 0
    /\ loop_continues(stop_checking)
    /\ Len(sleeps) < MaxProbes
    /\ sleeps' = Append(sleeps, ERROR_BACKOFF)
    /\ loops' = threads_after_error(loops)
    /\ sync_notified' = <<>>
    /\ lastOp' = "monitor_connectivity_error"
    /\ ret' = <<>>
    /\ UNCHANGED <<now, monitorVars, is_offline, offline_mode, sync_callbacks,
                   stop_checking, outsideConn>>

\* OfflineManager.enable_offline_mode.  ok = FALSE: the session, the query or
\* the commit raised; the except clause logs and is_offline is not assigned.
EnableOfflineMode(ok) ==
    /\ offline_mode' = IF ok THEN TRUE ELSE offline_mode
    /\ is_offline' = IF ok THEN TRUE ELSE is_offline
    /\ sync_notified' = <<>>
    /\ lastOp' = "enable_offline_mode"
    /\ ret' = <<>>
    /\ UNCHANGED <<now, monitorVars, sync_callbacks, stop_checking, loops,
                   sleeps, outsideConn>>

\* OfflineManager.disable_offline_mode
DisableOfflineMode(ok) ==
    /\ offline_mode' = IF ok THEN FALSE ELSE offline_mode
    /\ is_offline' = IF ok THEN FALSE ELSE is_offline
    /\ sync_notified' = <<>>
    /\ lastOp' = "disable_offline_mode"
    /\ ret' = <<>>
    /\ UNCHANGED <<now, monitorVars, sync_callbacks, stop_checking, loops,
                   sleeps, outsideConn>>

\* OfflineManager.register_sync_callback
RegisterSyncCallback(cb) ==
    /\ sync_callbacks' = IF ~InList(cb, sync_callbacks)
                         THEN Append(sync_callbacks, cb) ELSE sync_callbacks
    /\ sync_notified' = <<>>
    /\ lastOp' = "register_sync_callback"
    /\ ret' = <<>>
    /\ UNCHANGED <<now, monitorVars, is_offline, offline_mode, stop_checking, loops,
                   sleeps, outsideConn>>

InitProbe ==
    /\ now = 0
    /\ lastOp = NoOp
    /\ ret = <<>>
    /\ sync_queue = {}
    /\ enq_order = <<>>
    /\ retry_limit = DEFAULT_RETRY_LIMIT
    /\ fail_call = NoCall
    /\ db_error = FALSE
    /\ threads = NoThreads
    /\ InitConn
    /\ InitCache

NextProbe ==
    \/ \E reachable \in BOOLEAN : CheckConnectivity(reachable)
    \/ \E cb \in Callbacks : RegisterCallback(cb)
    \/ \E cb \in Callbacks : UnregisterCallback(cb)

\* Sequential probes of the connectivity monitor with subscribers coming and going.
SpecProbe == InitProbe /\ [][NextProbe]_vars

\* ------------------------------------------- connectivity: two probers
\* The polling thread (is_online() in _monitor_connectivity) and a foreground
\* caller of is_online() run check_connectivity on the one global
\* ConnectivityManager; no lock is taken, so the threads interleave between
\* the statements of the method.
Probers == {"monitor", "foreground"}

\* A prober outside check_connectivity; reachable is the outcome of its
\* socket.create_connection.
IdleProber == [pc |-> "idle", reachable |-> FALSE]

ProberFrame(op) ==
    /\ lastOp' = op
    /\ ret' = <<>>
    /\ UNCHANGED <<now, syncVars, cacheVars, raising, offlineVars,
                   connectivity_callbacks, reg_base>>

\* socket.create_connection(("8.8.8.8", 53), timeout) returns or raises.
ProbeConnects(p, reachable) ==
    /\ threads[p].pc = "idle"
    /\ Len(probes) < MaxProbes
    /\ threads' = [threads EXCEPT ![p] = [pc |-> "connected", reachable |-> reachable]]
    /\ probes' = Append(probes, reachable)
    /\ ProberFrame("check_connectivity: create_connection")
    /\ UNCHANGED <<is_online, cb_log, notified>>

\* `if not self.is_online:` after a connection, `if self.is_online:` after a
\* failure; with no change the method returns.
ProbeReadsIsOnline(p) ==
    /\ threads[p].pc = "connected"
    /\ threads' = [threads EXCEPT ![p].pc =
                      IF check_connectivity_state(is_online, threads[p].reachable)
                            # is_online
                      THEN "changed" ELSE "idle"]
    /\ ProberFrame("check_connectivity: if")
    /\ UNCHANGED <<is_online, probes, cb_log, notified>>

\* self.is_online = True / self.is_online = False
ProbeAssigns(p) ==
    /\ threads[p].pc = "changed"
    /\ is_online' = threads[p].reachable
    /\ threads' = [threads EXCEPT ![p].pc = "notifying"]
    /\ ProberFrame("check_connectivity: assign")
    /\ UNCHANGED <<probes, cb_log, notified>>

\* self._notify_connectivity_change(...) and the return.
ProbeNotifies(p) ==
    LET calls == notify_connectivity_change(connectivity_callbacks, threads[p].reachable)
    IN  /\ threads[p].pc = "notifying"
        /\ cb_log' = [cb \in Callbacks |-> cb_log[cb] \o ValuesFor(cb, calls)]
        /\ notified' = calls
        /\ threads' = [threads EXCEPT ![p].pc = "idle"]
        /\ ProberFrame("check_connectivity: notify")
        /\ UNCHANGED <<is_online, probes>>

\* Subscribers registered before the probes begin.
CallbackLists ==
    {<<>>} \cup {<<cb>> : cb \in Callbacks}
           \cup {pair \in Callbacks \X Callbacks : pair[1] # pair[2]}

InitProbers ==
    /\ now = 0
    /\ lastOp = NoOp
    /\ ret = <<>>
    /\ sync_queue = {}
    /\ enq_order = <<>>
    /\ retry_limit = DEFAULT_RETRY_LIMIT
    /\ fail_call = NoCall
    /\ db_error = FALSE
    /\ threads = [p \in Probers |-> IdleProber]
    /\ is_online = FALSE
    /\ connectivity_callbacks \in CallbackLists
    /\ probes = <<>>
    /\ cb_log = [cb \in Callbacks |-> <<>>]
    /\ notified = <<>>
    /\ reg_base = [cb \in Callbacks |-> NoBase]
    /\ is_offline = FALSE
    /\ offline_mode = FALSE
    /\ sync_callbacks = <<>>
    /\ sync_notified = <<>>
    /\ stop_checking = FALSE
    /\ loops = 1
    /\ sleeps = <<>>
    /\ raising = {}
    /\ InitCache

NextProbers ==
    \/ \E p \in Probers, reachable \in BOOLEAN : ProbeConnects(p, reachable)
    \/ \E p \in Probers : ProbeReadsIsOnline(p)
    \/ \E p \in Probers : ProbeAssigns(p)
    \/ \E p \in Probers : ProbeNotifies(p)

\* The polling thread and a foreground caller probing at once.
SpecProbers == InitProbers /\ [][NextProbers]_vars

\* ------------------------------- connectivity: unsubscribing while notified
\* _notify_connectivity_change walks self._connectivity_callbacks itself, not
\* a copy: the list iterator keeps a position, and every step takes the
\* element that is at that position in the list as it is then.
Notifier == "notifier"

\* What a callback does with the subscriber list while it runs: nothing, or
\* unregister_callback of one subscriber.
NoCallback == "none"

\* No notification under way; invoked are the callbacks the last one called.
IdleNotifier == [pc |-> "idle", index |-> 0, value |-> FALSE, invoked |-> {}]

\* list.remove(callback) under `if callback in self._connectivity_callbacks`
unregister_callback_list(callbacks, cb) ==
    SelectSeq(callbacks, LAMBDA c : c # cb)

\* The next element the for loop takes: the one at the iterator's position,
\* none when the position is past the end of the list.
next_callback(callbacks, index) ==
    IF index <= Len(callbacks) THEN callbacks[index] ELSE NoCallback

NotifierFrame(op) ==
    /\ lastOp' = op
    /\ ret' = <<>>
    /\ UNCHANGED <<now, syncVars, cacheVars, raising, offlineVars>>

\* A probe finds the connectivity changed: check_connectivity assigns
\* is_online and enters _notify_connectivity_change.
NotifyBegins ==
    /\ threads[Notifier].pc = "idle"
    /\ Len(probes) < MaxProbes
    /\ is_online' = ~is_online
    /\ probes' = Append(probes, ~is_online)
    /\ notified' = <<>>
    /\ threads' = [threads EXCEPT ![Notifier] =
                      [pc |-> "iterating", index |-> 1, value |-> ~is_online,
                       invoked |-> {}]]
    /\ NotifierFrame("_notify_connectivity_change")
    /\ UNCHANGED <<connectivity_callbacks, cb_log, reg_base>>

\* One turn of the for loop: the next callback is called with the value, and
\* while it runs it calls unregister_callback(removes) or leaves the list alone.
NotifyNext(removes) ==
    LET me == threads[Notifier]
        cb == next_callback(connectivity_callbacks, me.index)
    IN  /\ me.pc = "iterating"
        /\ cb # NoCallback
        /\ removes # NoCallback => InList(removes, connectivity_callbacks)
        /\ notified' = Append(notified, <<cb, me.value>>)
        /\ connectivity_callbacks' =
              IF removes = NoCallback THEN connectivity_callbacks
              ELSE unregister_callback_list(connectivity_callbacks, removes)
        /\ cb_log' = [c \in Callbacks |->
                         IF c = removes THEN <<>>
                         ELSE IF c = cb THEN Append(cb_log[c], me.value)
                         ELSE cb_log[c]]
        /\ reg_base' = IF removes = NoCallback THEN reg_base
                       ELSE [reg_base EXCEPT ![removes] = NoBase]
        /\ threads' = [threads EXCEPT ![Notifier].index = me.index + 1,
                                      ![Notifier].invoked = me.invoked \cup {cb}]
        /\ NotifierFrame("_notify_connectivity_change: callback")
        /\ UNCHANGED <<is_online, probes>>

\* The iterator is exhausted: the for loop and the method end.
NotifyReturns ==
    LET me == threads[Notifier]
    IN  /\ me.pc = "iterating"
        /\ next_callback(connectivity_callbacks, me.index) = NoCallback
        /\ threads' = [threads EXCEPT ![Notifier].pc = "idle"]
        /\ NotifierFrame("_notify_connectivity_change: return")
        /\ UNCHANGED monitorVars

InitUnsubscribe ==
    /\ now = 0
    /\ lastOp = NoOp
    /\ ret = <<>>
    /\ sync_queue = {}
    /\ enq_order = <<>>
    /\ retry_limit = DEFAULT_RETRY_LIMIT
    /\ fail_call = NoCall
    /\ db_error = FALSE
    /\ threads = [n \in {Notifier} |-> IdleNotifier]
    /\ is_online = FALSE
    /\ connectivity_callbacks \in CallbackLists
    /\ probes = <<>>
    /\ cb_log = [cb \in Callbacks |-> <<>>]
    /\ notified = <<>>
    /\ reg_base = [cb \in Callbacks |-> NoBase]
    /\ is_offline = FALSE
    /\ offline_mode = FALSE
    /\ sync_callbacks = <<>>
    /\ sync_notified = <<>>
    /\ stop_checking = FALSE
    /\ loops = 0
    /\ sleeps = <<>>
    /\ raising = {}
    /\ InitCache

NextUnsubscribe ==
    \/ NotifyBegins
    \/ \E removes \in Callbacks \cup {NoCallback} : NotifyNext(removes)
    \/ NotifyReturns

\* Notifications whose callbacks unsubscribe themselves or one another.
SpecUnsubscribe == InitUnsubscribe /\ [][NextUnsubscribe]_vars

NextOffline ==
    \/ StartConnectivityMonitoring
    \/ StopConnectivityMonitoring
    \/ MonitorExit
    \/ \E reachable \in BOOLEAN : MonitorIteration(reachable)
    \/ \E ok \in BOOLEAN : EnableOfflineMode(ok)
    \/ \E ok \in BOOLEAN : DisableOfflineMode(ok)
    \/ \E cb \in SyncCallbacks : RegisterSyncCallback(cb)

\* The offline coordinator: manual toggles and the polling loop.
SpecOffline == InitProbe /\ [][NextOffline]_vars

\* ------------------------------------------------- offline manager: restart
\* The process ends and a new one constructs its OfflineManager:
\* OfflineManager.__init__ on the database the old process left.  The polling
\* threads and the subscribers of the old process are gone; the settings row
\* is kept.
Restart ==
    /\ is_offline' = FALSE
    /\ sync_callbacks' = <<>>
    /\ stop_checking' = FALSE
    /\ loops' = 0
    /\ sleeps' = <<>>
    /\ sync_notified' = <<>>
    /\ lastOp' = "OfflineManager.__init__"
    /\ ret' = <<>>
    /\ UNCHANGED <<now, monitorVars, offline_mode, outsideConn>>

NextRestart ==
    \/ NextOffline
    \/ Restart

\* The offline coordinator across restarts of the process.
SpecRestart == InitProbe /\ [][NextRestart]_vars

\* ---------------------------------------------------- the polling loop
\* A step of a live polling thread: an iteration, or the exit from the loop.
MonitorStep ==
    \/ \E reachable \in BOOLEAN : MonitorIteration(reachable)
    \/ MonitorError
    \/ MonitorExit

InitLoop ==
    /\ now = 0
    /\ lastOp = NoOp
    /\ ret = <<>>
    /\ sync_queue = {}
    /\ enq_order = <<>>
    /\ retry_limit = DEFAULT_RETRY_LIMIT
    /\ fail_call = NoCall
    /\ db_error = FALSE
    /\ threads = NoThreads
    /\ InitManagers
    /\ raising \in SUBSET SyncCallbacks
    /\ InitCache

NextLoop ==
    \/ StartConnectivityMonitoring
    \/ StopConnectivityMonitoring
    \/ MonitorExit
    \/ \E reachable \in BOOLEAN : MonitorIteration(reachable)
    \/ MonitorError
    \/ \E cb \in SyncCallbacks : RegisterSyncCallback(cb)

\* The polling threads between start and stop; a live thread that is not
\* asleep for ever takes its next step.
SpecLoop == InitLoop /\ [][NextLoop]_vars /\ WF_vars(MonitorStep)

\* ------------------------------------------ notifications to subscribers
\* Subscribers of both managers, any of them raising when invoked.
InitNotify ==
    /\ now = 0
    /\ lastOp = NoOp
    /\ ret = <<>>
    /\ sync_queue = {}
    /\ enq_order = <<>>
    /\ retry_limit = DEFAULT_RETRY_LIMIT
    /\ fail_call = NoCall
    /\ db_error = FALSE
    /\ threads = NoThreads
    /\ InitManagers
    /\ raising \in SUBSET (Callbacks \cup SyncCallbacks)
    /\ InitCache

NextNotify ==
    \/ StartConnectivityMonitoring
    \/ \E reachable \in BOOLEAN : MonitorIteration(reachable)
    \/ \E cb \in Callbacks : RegisterCallback(cb)
    \/ \E cb \in SyncCallbacks : RegisterSyncCallback(cb)

\* The polling loop notifying the subscribers of both managers.
SpecNotify == InitNotify /\ [][NextNotify]_vars

\* ================================================================ cache store
\* Time is counted in hours since the store was created; a calendar day is
\* HoursPerDay of them (datetime.now().date()).
Today(t) == t \div HoursPerDay

SoilTTL == cache_ttl.SOIL_CACHE_DAYS * HoursPerDay
WeatherTTL == cache_ttl.WEATHER_CACHE_HOURS
MarketTTL == cache_ttl.MARKET_CACHE_HOURS
RecommendationTTL == cache_ttl.RECOMMENDATION_CACHE_DAYS * HoursPerDay

\* Coordinates in tenths of a degree, as <<latitude, longitude>>.
Locations == {<<286, 772>>, <<191, 728>>}
Commodities == {"wheat", "rice"}
States == {"MH"}
NoState == ""
FieldIds == {1}
NoField == 0

\* A read that also serves the row expiring at this very instant.
Fresh_inclusive(row, t) == row.expires_at >= t
\* expires_at > datetime.utcnow(): the filter of every read.
Fresh(row, t) == row.expires_at > t

\* A sweep that spares the row expiring at this very instant.
Expired_strict(row, t) == row.expires_at < t
\* expires_at <= datetime.utcnow(): the filter of every sweep.
Expired(row, t) == row.expires_at <= t

\* The rows of a query in the order of its index or ORDER BY: `before` holds
\* the pairs <<a, b>> of rows with a ahead of b, and is total on the rows.
OrderBy(rows, before) ==
    [i \in 1..Cardinality(rows) |->
        CHOOSE r \in rows : Cardinality({o \in rows : <<o, r>> \in before}) = i - 1]

ByRowid(rows) == {<<a, b>> \in rows \X rows : a.id < b.id}
\* idx_weather_data_location_date serves the weather query.
ByForecastDate(rows) ==
    {<<a, b>> \in rows \X rows :
        \/ a.forecast_date < b.forecast_date
        \/ a.forecast_date = b.forecast_date /\ a.id < b.id}
ByPriceDateDesc(rows) ==
    {<<a, b>> \in rows \X rows :
        \/ a.price_date > b.price_date
        \/ a.price_date = b.price_date /\ a.id < b.id}
ByRank(rows) ==
    {<<a, b>> \in rows \X rows :
        \/ a.rank < b.rank
        \/ a.rank = b.rank /\ a.id < b.id}

\* ids id0+1 .. id0+n for the rows of one put
BatchId(table, i) == NewId(table) + i - 1

\* --- soil
get_cached_soil_data_rows(table, latitude, longitude, t) ==
    LET found == {r \in table : /\ r.latitude = latitude
                                 /\ r.longitude = longitude
                                 /\ Fresh(r, t)}
        hits == OrderBy(found, ByRowid(found))
    IN  IF hits = <<>> THEN <<>> ELSE <<Head(hits)>>

cache_soil_data_rows(table, latitude, longitude, t) ==
    table \cup {[id |-> NewId(table), latitude |-> latitude, longitude |-> longitude,
                 fetched_at |-> t, expires_at |-> t + SoilTTL]}

\* --- weather
NoDate == -1

get_cached_weather_rows(table, latitude, longitude, forecast_date, t) ==
    LET found == {r \in table :
                     /\ r.latitude = latitude
                     /\ r.longitude = longitude
                     /\ Fresh(r, t)
                     /\ (forecast_date # NoDate => r.forecast_date = forecast_date)}
    IN  OrderBy(found, ByForecastDate(found))

\* A put that replaces what the store holds for the location of the new rows.
cache_weather_data_rows_replacing(table, latitude, longitude, weather_list, t) ==
    LET kept == {r \in table : r.latitude # latitude \/ r.longitude # longitude}
    IN  kept \cup {[id |-> BatchId(table, i), latitude |-> latitude, longitude |-> longitude,
                    forecast_date |-> weather_list[i].forecast_date,
                    fetched_at |-> t, expires_at |-> t + WeatherTTL]
                   : i \in 1..Len(weather_list)}

cache_weather_data_rows(table, latitude, longitude, weather_list, t) ==
    table \cup {[id |-> BatchId(table, i), latitude |-> latitude, longitude |-> longitude,
                 forecast_date |-> weather_list[i].forecast_date,
                 fetched_at |-> t, expires_at |-> t + WeatherTTL]
                : i \in 1..Len(weather_list)}

\* --- market
get_cached_market_prices_rows(table, commodity, state, t) ==
    LET found == {r \in table : /\ r.commodity_name = commodity
                                 /\ Fresh(r, t)
                                 /\ (state # NoState => r.state = state)}
    IN  OrderBy(found, ByPriceDateDesc(found))

\* A put that computes the expiry of each row when it creates the row, an
\* hour passing from one row to the next.
cache_market_data_rows_expiry_per_row(table, market_data_list, t) ==
    table \cup {[id |-> BatchId(table, i),
                 commodity_name |-> market_data_list[i].commodity_name,
                 state |-> market_data_list[i].state,
                 price_date |-> market_data_list[i].price_date,
                 fetched_at |-> t + i - 1, expires_at |-> t + i - 1 + MarketTTL]
                : i \in 1..Len(market_data_list)}

cache_market_data_rows(table, market_data_list, t) ==
    table \cup {[id |-> BatchId(table, i),
                 commodity_name |-> market_data_list[i].commodity_name,
                 state |-> market_data_list[i].state,
                 price_date |-> market_data_list[i].price_date,
                 fetched_at |-> t, expires_at |-> t + MarketTTL]
                : i \in 1..Len(market_data_list)}

\* --- recommendations
get_cached_recommendations_rows(table, field_id, t) ==
    LET found == {r \in table : /\ Fresh(r, t)
                                 /\ (field_id # NoField => r.field_id = field_id)}
    IN  OrderBy(found, ByRank(found))

cache_recommendations_rows(table, recommendations_list, field_id, t) ==
    table \cup {[id |-> BatchId(table, i), field_id |-> field_id,
                 rank |-> recommendations_list[i].rank,
                 generated_at |-> t, expires_at |-> t + RecommendationTTL]
                : i \in 1..Len(recommendations_list)}

\* --- sweeps
\* A sweep that deletes one expired row per call, the oldest.
cleanup_expired_rows_one_per_call(table, t) ==
    LET expired == {r \in table : Expired(r, t)}
    IN  table \ {r \in expired : \A o \in expired : r.id <= o.id}

\* query.filter(expires_at <= utcnow()).delete(): the rows left.
cleanup_expired_rows(table, t) == {r \in table : ~Expired(r, t)}

get_cache_stats_dict(soil, weather, market, recs) ==
    [soil_entries |-> Cardinality(soil),
     weather_entries |-> Cardinality(weather),
     market_entries |-> Cardinality(market),
     recommendation_entries |-> Cardinality(recs),
     total_entries |-> Cardinality(soil) + Cardinality(weather)
                       + Cardinality(market) + Cardinality(recs)]

\* get_cache_stats runs eight count queries: one per table for its entry, and
\* the four again for total_entries.
StatsQueries == 8
StatsKeys == <<"soil_entries", "weather_entries", "market_entries",
               "recommendation_entries", "total_entries">>

\* A get_cache_stats that returns the counts it had when query `failing` raised.
get_cache_stats_partial(failing, soil, weather, market, recs) ==
    LET dict == get_cache_stats_dict(soil, weather, market, recs)
        done == {StatsKeys[i] : i \in {j \in 1..Len(StatsKeys) :
                                         failing = 0 \/ (j < 5 /\ j < failing)}}
    IN  <<[k \in done |-> dict[k]]>>

\* get_cache_stats: the dict is built after all eight queries; when query
\* number `failing` raises (0: none does) the except clause returns {}.
get_cache_stats_result(failing, soil, weather, market, recs) ==
    IF failing = 0 THEN <<get_cache_stats_dict(soil, weather, market, recs)>> ELSE <<>>

\* What callers pass to the puts.
Forecast(day, n) == [i \in 1..n |-> [forecast_date |-> day + i - 1]]
WeatherLists(day) == {Forecast(day, n) : n \in 1..MaxBatch}
MarketLists(day) ==
    {[i \in 1..n |-> [commodity_name |-> c, state |-> s, price_date |-> day]]
     : c \in Commodities, s \in States, n \in 1..MaxBatch}
RecommendationLists == {[i \in 1..n |-> [rank |-> i]] : n \in 1..MaxBatch}

\* A read: the rows found, nothing on a storage error.
CacheRead(op, rows, ok) ==
    /\ lastOp' = op
    /\ ret' = IF ok THEN rows ELSE <<>>
    /\ sweep_call' = <<>>
    /\ ws_call' = NoWsCall
    /\ put_call' = NoPut
    /\ UNCHANGED <<now, tables, inserted, outsideCache>>

\* What a put or a sweep leaves besides the table it writes.
CacheWrite(op, n, sweeps) ==
    /\ lastOp' = op
    /\ ret' = <<>>
    /\ inserted' = inserted + n
    /\ sweep_call' = sweeps
    /\ ws_call' = NoWsCall
    /\ put_call' = NoPut
    /\ UNCHANGED <<now, outsideCache>>

GetCachedSoilData(loc, ok) ==
    CacheRead("get_cached_soil_data",
              get_cached_soil_data_rows(soil_data, loc[1], loc[2], now), ok)

CacheSoilData(loc, ok) ==
    /\ inserted + 1 <= row_budget
    /\ soil_data' = IF ok THEN cache_soil_data_rows(soil_data, loc[1], loc[2], now)
                    ELSE soil_data
    /\ CacheWrite("cache_soil_data", IF ok THEN 1 ELSE 0, <<>>)
    /\ UNCHANGED <<weather_data, market_data, recommendations>>

Sweep(name, table) == <<[table |-> name, before |-> table]>>

CleanupExpiredSoilData(ok) ==
    /\ soil_data' = IF ok THEN cleanup_expired_rows(soil_data, now) ELSE soil_data
    /\ CacheWrite("cleanup_expired_soil_data", 0,
                  IF ok THEN Sweep("soil_data", soil_data) ELSE <<>>)
    /\ UNCHANGED <<weather_data, market_data, recommendations>>

GetCachedWeather(loc, forecast_date, ok) ==
    CacheRead("get_cached_weather",
              get_cached_weather_rows(weather_data, loc[1], loc[2], forecast_date, now), ok)

CacheWeatherData(loc, weather_list, ok) ==
    /\ inserted + Len(weather_list) <= row_budget
    /\ weather_data' = IF ok THEN cache_weather_data_rows(weather_data, loc[1], loc[2],
                                                          weather_list, now)
                       ELSE weather_data
    /\ CacheWrite("cache_weather_data", IF ok THEN Len(weather_list) ELSE 0, <<>>)
    /\ UNCHANGED <<soil_data, market_data, recommendations>>

CleanupExpiredWeatherData(ok) ==
    /\ weather_data' = IF ok THEN cleanup_expired_rows(weather_data, now) ELSE weather_data
    /\ CacheWrite("cleanup_expired_weather_data", 0,
                  IF ok THEN Sweep("weather_data", weather_data) ELSE <<>>)
    /\ UNCHANGED <<soil_data, market_data, recommendations>>

GetCachedMarketPrices(commodity, state, ok) ==
    CacheRead("get_cached_market_prices",
              get_cached_market_prices_rows(market_data, commodity, state, now), ok)

CacheMarketData(market_data_list, ok) ==
    /\ inserted + Len(market_data_list) <= row_budget
    /\ market_data' = IF ok THEN cache_market_data_rows(market_data, market_data_list, now)
                      ELSE market_data
    /\ CacheWrite("cache_market_data", IF ok THEN Len(market_data_list) ELSE 0, <<>>)
    /\ UNCHANGED <<soil_data, weather_data, recommendations>>

CleanupExpiredMarketData(ok) ==
    /\ market_data' = IF ok THEN cleanup_expired_rows(market_data, now) ELSE market_data
    /\ CacheWrite("cleanup_expired_market_data", 0,
                  IF ok THEN Sweep("market_data", market_data) ELSE <<>>)
    /\ UNCHANGED <<soil_data, weather_data, recommendations>>

GetCachedRecommendations(field_id, ok) ==
    CacheRead("get_cached_recommendations",
              get_cached_recommendations_rows(recommendations, field_id, now), ok)

CacheRecommendations(recommendations_list, field_id, ok) ==
    /\ inserted + Len(recommendations_list) <= row_budget
    /\ recommendations' =
           IF ok THEN cache_recommendations_rows(recommendations, recommendations_list,
                                                 field_id, now)
           ELSE recommendations
    /\ CacheWrite("cache_recommendations",
                  IF ok THEN Len(recommendations_list) ELSE 0, <<>>)
    /\ UNCHANGED <<soil_data, weather_data, market_data>>

CleanupExpiredRecommendations(ok) ==
    /\ recommendations' = IF ok THEN cleanup_expired_rows(recommendations, now)
                          ELSE recommendations
    /\ CacheWrite("cleanup_expired_recommendations", 0,
                  IF ok THEN Sweep("recommendations", recommendations) ELSE <<>>)
    /\ UNCHANGED <<soil_data, weather_data, market_data>>

\* The outcomes of the four sweeps of one cleanup_all_expired_cache: each is a
\* transaction of its own, and at most one of them meets a storage error.
SweepOutcomes ==
    {[i \in 1..4 |-> i # failing] : failing \in 0..4}

\* The tables in the order cleanup_all_expired_cache sweeps them.
SweepOrder == <<"soil_data", "weather_data", "market_data", "recommendations">>

\* A cleanup that the first failing sweep ends: its error reaches the caller.
cleanup_all_sweeps_until_error(ok) ==
    LET bad == {i \in 1..Len(SweepOrder) : ~ok[i]}
    IN  IF bad = {} THEN SweepOrder
        ELSE SubSeq(SweepOrder, 1, CHOOSE i \in bad : \A j \in bad : i <= j)

\* cleanup_all_expired_cache: the sweeps it calls, in order. Each sweep
\* catches its own storage error, so all four are called whatever ok is.
cleanup_all_sweeps(ok) == SweepOrder

\* Sweep number i of a cleanup was called and its transaction committed.
Swept(i, ok) ==
    /\ ok[i]
    /\ \E j \in 1..Len(cleanup_all_sweeps(ok)) : cleanup_all_sweeps(ok)[j] = SweepOrder[i]

\* The four sweeps in turn, each in its own transaction, each failing alone.
CleanupAllExpiredCache(ok) ==
    /\ soil_data' = IF Swept(1, ok) THEN cleanup_expired_rows(soil_data, now)
                    ELSE soil_data
    /\ weather_data' = IF Swept(2, ok) THEN cleanup_expired_rows(weather_data, now)
                       ELSE weather_data
    /\ market_data' = IF Swept(3, ok) THEN cleanup_expired_rows(market_data, now)
                      ELSE market_data
    /\ recommendations' = IF Swept(4, ok) THEN cleanup_expired_rows(recommendations, now)
                          ELSE recommendations
    /\ CacheWrite("cleanup_all_expired_cache", 0,
                  (IF Swept(1, ok) THEN Sweep("soil_data", soil_data) ELSE <<>>)
                  \o (IF Swept(2, ok) THEN Sweep("weather_data", weather_data) ELSE <<>>)
                  \o (IF Swept(3, ok) THEN Sweep("market_data", market_data) ELSE <<>>)
                  \o (IF Swept(4, ok) THEN Sweep("recommendations", recommendations)
                      ELSE <<>>))

GetCacheStats(failing) ==
    CacheRead("get_cache_stats",
              get_cache_stats_result(failing, soil_data, weather_data, market_data,
                                     recommendations), TRUE)

\* The clock runs on from one event to a later one: the instant a stored row
\* expires, or a midnight.
Expiries ==
    {r.expires_at : r \in soil_data} \cup {r.expires_at : r \in weather_data}
    \cup {r.expires_at : r \in market_data} \cup {r.expires_at : r \in recommendations}

Midnights == {d * HoursPerDay : d \in 1..MaxDay}

Instants == {t \in Expiries \cup Midnights : t > now}

Tick ==
    /\ \E t \in Instants : now' = t
    /\ lastOp' = "tick"
    /\ ret' = <<>>
    /\ sweep_call' = <<>>
    /\ ws_call' = NoWsCall
    /\ put_call' = NoPut
    /\ UNCHANGED <<tables, inserted, outsideCache>>

Init == InitProbe

Next ==
    \/ \E loc \in Locations, ok \in BOOLEAN : GetCachedSoilData(loc, ok)
    \/ \E loc \in Locations, ok \in BOOLEAN : CacheSoilData(loc, ok)
    \/ \E ok \in BOOLEAN : CleanupExpiredSoilData(ok)
    \/ \E loc \in Locations, d \in {NoDate, Today(now)}, ok \in BOOLEAN :
           GetCachedWeather(loc, d, ok)
    \/ \E loc \in Locations, l \in WeatherLists(Today(now)), ok \in BOOLEAN :
           CacheWeatherData(loc, l, ok)
    \/ \E ok \in BOOLEAN : CleanupExpiredWeatherData(ok)
    \/ \E c \in Commodities, s \in States \cup {NoState}, ok \in BOOLEAN :
           GetCachedMarketPrices(c, s, ok)
    \/ \E l \in MarketLists(Today(now)), ok \in BOOLEAN : CacheMarketData(l, ok)
    \/ \E ok \in BOOLEAN : CleanupExpiredMarketData(ok)
    \/ \E f \in FieldIds \cup {NoField}, ok \in BOOLEAN : GetCachedRecommendations(f, ok)
    \/ \E l \in RecommendationLists, f \in FieldIds \cup {NoField}, ok \in BOOLEAN :
           CacheRecommendations(l, f, ok)
    \/ \E ok \in BOOLEAN : CleanupExpiredRecommendations(ok)
    \/ \E ok \in SweepOutcomes : CleanupAllExpiredCache(ok)
    \/ \E failing \in {0, StatsQueries} : GetCacheStats(failing)
    \/ Tick

\* The cache store under reads, puts, sweeps and the passing of time.
Spec == Init /\ [][Next]_vars

\* ----------------------------------------------------- cache: round trips
\* A put and, at once, the get for the key the put used; the storage works.
RoundTrip(op, table, added, found) ==
    /\ inserted + Cardinality(added) <= row_budget
    /\ lastOp' = op
    /\ ret' = found
    /\ inserted' = inserted + Cardinality(added)
    /\ put_call' = [table |-> table, rows |-> added]
    /\ sweep_call' = <<>>
    /\ ws_call' = NoWsCall
    /\ UNCHANGED <<now, outsideCache>>

PutGetSoil(loc) ==
    LET after == cache_soil_data_rows(soil_data, loc[1], loc[2], now)
    IN  /\ soil_data' = after
        /\ RoundTrip("cache_soil_data; get_cached_soil_data", "soil_data",
                     after \ soil_data,
                     get_cached_soil_data_rows(after, loc[1], loc[2], now))
        /\ UNCHANGED <<weather_data, market_data, recommendations>>

PutGetWeather(loc, weather_list) ==
    LET after == cache_weather_data_rows(weather_data, loc[1], loc[2], weather_list, now)
    IN  /\ weather_data' = after
        /\ RoundTrip("cache_weather_data; get_cached_weather", "weather_data",
                     after \ weather_data,
                     get_cached_weather_rows(after, loc[1], loc[2], NoDate, now))
        /\ UNCHANGED <<soil_data, market_data, recommendations>>

PutGetMarket(market_data_list) ==
    LET after == cache_market_data_rows(market_data, market_data_list, now)
    IN  /\ market_data' = after
        /\ RoundTrip("cache_market_data; get_cached_market_prices", "market_data",
                     after \ market_data,
                     get_cached_market_prices_rows(after,
                         market_data_list[1].commodity_name, NoState, now))
        /\ UNCHANGED <<soil_data, weather_data, recommendations>>

PutGetRecommendations(recommendations_list, field_id) ==
    LET after == cache_recommendations_rows(recommendations, recommendations_list,
                                            field_id, now)
    IN  /\ recommendations' = after
        /\ RoundTrip("cache_recommendations; get_cached_recommendations",
                     "recommendations", after \ recommendations,
                     get_cached_recommendations_rows(after, field_id, now))
        /\ UNCHANGED <<soil_data, weather_data, market_data>>

NextRoundTrip ==
    \/ \E loc \in Locations : PutGetSoil(loc)
    \/ \E loc \in Locations, l \in WeatherLists(Today(now)) : PutGetWeather(loc, l)
    \/ \E l \in MarketLists(Today(now)) : PutGetMarket(l)
    \/ \E l \in RecommendationLists, f \in FieldIds \cup {NoField} :
           PutGetRecommendations(l, f)
    \/ Tick

\* Puts each followed at once by the get for the same key, and the clock.
SpecRoundTrip == Init /\ [][NextRoundTrip]_vars

\* ------------------------------------------------------- cache: statistics
NextStats ==
    \/ \E loc \in Locations, ok \in BOOLEAN : CacheSoilData(loc, ok)
    \/ \E loc \in Locations, l \in WeatherLists(Today(now)), ok \in BOOLEAN :
           CacheWeatherData(loc, l, ok)
    \/ \E l \in MarketLists(Today(now)), ok \in BOOLEAN : CacheMarketData(l, ok)
    \/ \E l \in RecommendationLists, f \in FieldIds \cup {NoField}, ok \in BOOLEAN :
           CacheRecommendations(l, f, ok)
    \/ \E ok \in SweepOutcomes : CleanupAllExpiredCache(ok)
    \/ \E failing \in 0..StatsQueries : GetCacheStats(failing)
    \/ Tick

\* The statistics of the store among puts, sweeps and the passing of time.
SpecStats == Init /\ [][NextStats]_vars

\* ------------------------------------------------------ sessions of the calls
\* Every cache and queue method has the same shape:
\*     try: session = self.db.get_session(); <work>; session.close()
\*     except Exception: log
\* The calls are followed here in two statements: the session is acquired,
\* then the work either runs to session.close() or raises into the except
\* branch.  One thread makes the calls.
Caller == "main"

NoSessionCall == [call |-> "none", open_sessions |-> 0]

SessionOps == {"queue_for_sync", "cache_soil_data", "get_cached_weather"}

\* The sessions open when the method returns: session.close() is the last
\* statement of the try block, and the except branch has none.
sessions_at_return(ok, open) == IF ok THEN open - 1 ELSE open

SessionFrame(op) ==
    /\ lastOp' = op
    /\ fail_call' = NoCall
    /\ sweep_call' = <<>>
    /\ ws_call' = NoWsCall
    /\ put_call' = NoPut
    /\ UNCHANGED <<now, retry_limit, connVars, row_budget, cache_ttl, market_data,
                   recommendations>>

\* session = self.db.get_session()
AcquireSession(op) ==
    /\ threads[Caller].call = "none"
    /\ threads[Caller].open_sessions < MaxOpenSessions
    /\ threads' = [threads EXCEPT ![Caller].call = op, ![Caller].open_sessions = @ + 1]
    /\ ret' = <<>>
    /\ db_error' = FALSE
    /\ SessionFrame("get_session")
    /\ UNCHANGED <<sync_queue, enq_order, soil_data, weather_data, inserted>>

\* queue_for_sync from session.add to its return.
ReturnFromQueueForSync(entity_type, entity_id, action, payload, ok) ==
    /\ threads[Caller].call = "queue_for_sync"
    /\ NewId(sync_queue) <= MaxSyncId
    /\ sync_queue' = committed(ok, sync_queue,
          queue_for_sync_rows(sync_queue, entity_type, entity_id, action, payload, now))
    /\ enq_order' = IF ok THEN Append(enq_order, NewId(sync_queue)) ELSE enq_order
    /\ threads' = [threads EXCEPT
                      ![Caller].call = "none",
                      ![Caller].open_sessions = sessions_at_return(ok, @)]
    /\ ret' = <<>>
    /\ db_error' = ~ok
    /\ SessionFrame("queue_for_sync")
    /\ UNCHANGED <<soil_data, weather_data, inserted>>

\* cache_soil_data from the computation of expires_at to its return.
ReturnFromCacheSoilData(loc, ok) ==
    /\ threads[Caller].call = "cache_soil_data"
    /\ inserted + 1 <= row_budget
    /\ soil_data' = IF ok THEN cache_soil_data_rows(soil_data, loc[1], loc[2], now)
                    ELSE soil_data
    /\ inserted' = inserted + (IF ok THEN 1 ELSE 0)
    /\ threads' = [threads EXCEPT
                      ![Caller].call = "none",
                      ![Caller].open_sessions = sessions_at_return(ok, @)]
    /\ ret' = <<>>
    /\ db_error' = FALSE
    /\ SessionFrame("cache_soil_data")
    /\ UNCHANGED <<sync_queue, enq_order, weather_data>>

\* get_cached_weather, called by get_current_weather, from the query to its
\* return; on a miss the service goes on to the live fetch.
ReturnFromGetCachedWeather(loc, ok) ==
    LET rows == IF ok THEN get_cached_weather_rows(weather_data, loc[1], loc[2],
                                                   Today(now), now)
                ELSE <<>>
    IN  /\ threads[Caller].call = "get_cached_weather"
        /\ threads' = [threads EXCEPT
                          ![Caller].call = IF rows = <<>> THEN "_fetch_current_weather"
                                           ELSE "none",
                          ![Caller].open_sessions = sessions_at_return(ok, @)]
        /\ ret' = rows
        /\ db_error' = FALSE
        /\ SessionFrame("get_cached_weather")
        /\ UNCHANGED <<sync_queue, enq_order, soil_data, weather_data, inserted>>

\* The live fetch answers or fails; what it returned is not followed further.
LiveFetchEnds ==
    /\ threads[Caller].call = "_fetch_current_weather"
    /\ threads' = [threads EXCEPT ![Caller].call = "none"]
    /\ ret' = <<>>
    /\ db_error' = FALSE
    /\ SessionFrame("_fetch_current_weather")
    /\ UNCHANGED <<sync_queue, enq_order, soil_data, weather_data, inserted>>

InitSessions ==
    /\ now = 0
    /\ sync_queue = {}
    /\ enq_order = <<>>
    /\ retry_limit = DEFAULT_RETRY_LIMIT
    /\ fail_call = NoCall
    /\ db_error = FALSE
    /\ threads = [t \in {Caller} |-> NoSessionCall]
    /\ lastOp = NoOp
    /\ ret = <<>>
    /\ InitConn
    /\ InitCache

NextSessions ==
    \/ \E op \in SessionOps : AcquireSession(op)
    \/ \E et \in EntityTypes, eid \in EntityIds, a \in SyncActions, p \in Payloads,
          ok \in BOOLEAN : ReturnFromQueueForSync(et, eid, a, p, ok)
    \/ \E loc \in Locations, ok \in BOOLEAN : ReturnFromCacheSoilData(loc, ok)
    \/ \E loc \in Locations, ok \in BOOLEAN : ReturnFromGetCachedWeather(loc, ok)
    \/ LiveFetchEnds

\* The sessions one thread holds while it calls the queue, the cache and the
\* weather service.
SpecSessions == InitSessions /\ [][NextSessions]_vars

\* ------------------------------------------------- cache: configured lifetimes
\* What the environment may set a lifetime to: int() of the variable accepts
\* every integer, zero among them, and the default applies when it is unset.
ConfiguredTTLs ==
    [SOIL_CACHE_DAYS : {0, SOIL_CACHE_DAYS}, WEATHER_CACHE_HOURS : {0, WEATHER_CACHE_HOURS},
     MARKET_CACHE_HOURS : {0, MARKET_CACHE_HOURS},
     RECOMMENDATION_CACHE_DAYS : {0, RECOMMENDATION_CACHE_DAYS}]

InitConfigured ==
    /\ now = 0
    /\ lastOp = NoOp
    /\ ret = <<>>
    /\ sync_queue = {}
    /\ enq_order = <<>>
    /\ retry_limit = DEFAULT_RETRY_LIMIT
    /\ fail_call = NoCall
    /\ db_error = FALSE
    /\ threads = NoThreads
    /\ InitConn
    /\ InitTables
    /\ row_budget = MaxCacheRows
    /\ cache_ttl \in ConfiguredTTLs

NextConfigured ==
    \/ \E loc \in Locations, ok \in BOOLEAN : CacheSoilData(loc, ok)
    \/ \E loc \in Locations, l \in WeatherLists(Today(now)), ok \in BOOLEAN :
           CacheWeatherData(loc, l, ok)
    \/ \E l \in MarketLists(Today(now)), ok \in BOOLEAN : CacheMarketData(l, ok)
    \/ \E l \in RecommendationLists, f \in FieldIds \cup {NoField}, ok \in BOOLEAN :
           CacheRecommendations(l, f, ok)
    \/ Tick

\* The puts under every configuration of the lifetimes.
SpecConfigured == InitConfigured /\ [][NextConfigured]_vars

\* ---------------------------------------------------- cache: repeated sweeps
\* The sweep of one table called twice in a row, nothing in between; the
\* storage works.
SweepTwice(name) ==
    LET before == CASE name = "soil_data" -> soil_data
                    [] name = "weather_data" -> weather_data
                    [] name = "market_data" -> market_data
                    [] name = "recommendations" -> recommendations
        once == cleanup_expired_rows(before, now)
        twice == cleanup_expired_rows(once, now)
    IN  /\ soil_data' = IF name = "soil_data" THEN twice ELSE soil_data
        /\ weather_data' = IF name = "weather_data" THEN twice ELSE weather_data
        /\ market_data' = IF name = "market_data" THEN twice ELSE market_data
        /\ recommendations' = IF name = "recommendations" THEN twice ELSE recommendations
        /\ CacheWrite("cleanup_expired; cleanup_expired", 0,
                      Sweep(name, before) \o Sweep(name, once))

InitSweepTwice ==
    /\ now = 0
    /\ lastOp = NoOp
    /\ ret = <<>>
    /\ sync_queue = {}
    /\ enq_order = <<>>
    /\ retry_limit = DEFAULT_RETRY_LIMIT
    /\ fail_call = NoCall
    /\ db_error = FALSE
    /\ threads = NoThreads
    /\ InitConn
    /\ InitTables
    /\ row_budget = MaxSweepRows
    /\ cache_ttl = DefaultTTL

\* One key per kind: a sweep does not look at the key of a row.
SweptLocation == <<286, 772>>
SweptMarketLists(day) == {l \in MarketLists(day) : l[1].commodity_name = "wheat"}

NextSweepTwice ==
    \/ CacheSoilData(SweptLocation, TRUE)
    \/ \E l \in WeatherLists(Today(now)) : CacheWeatherData(SweptLocation, l, TRUE)
    \/ \E l \in SweptMarketLists(Today(now)) : CacheMarketData(l, TRUE)
    \/ \E l \in RecommendationLists : CacheRecommendations(l, NoField, TRUE)
    \/ \E i \in 1..Len(SweepOrder) : SweepTwice(SweepOrder[i])
    \/ Tick

\* Puts, the clock, and sweeps called twice in a row.
SpecSweepTwice == InitSweepTwice /\ [][NextSweepTwice]_vars

\* ------------------------------------------- cache: a sweep racing get and put
\* Three threads work on the weather rows of one location: one reads, one
\* puts, one sweeps.  Each call is followed statement by statement: the value
\* of datetime.utcnow() is taken when the query or the expiry is built, the
\* SQL statement runs later, the call returns after that.
Racers == {"reader", "writer", "sweeper"}

\* pc: the statement the thread is at; at: the clock value its call read;
\* arg: the argument of the call; results: the rows a query gave the reader;
\* seen: the table when the sweep began; log: for the writer the rows its
\* puts committed, for the sweeper the clock values of the sweeps it ran.
IdleRacer == [pc |-> "idle", at |-> NoTime, arg |-> <<>>, results |-> <<>>, seen |-> {},
              log |-> {}]

\* A sweep that writes back the unexpired rows of the table as it was when
\* the sweep began.
sweep_commit_from_snapshot(table, seen, t) == cleanup_expired_rows(seen, t)

\* query.filter(expires_at <= t).delete(); session.commit(): the DELETE acts
\* on the table as it is when the statement runs.
sweep_commit(table, seen, t) == cleanup_expired_rows(table, t)

RaceFrame(op) ==
    /\ lastOp' = op
    /\ UNCHANGED <<now, syncVars, connVars, soil_data, market_data, recommendations,
                   row_budget, cache_ttl, sweep_call, ws_call, put_call>>

\* get_cached_weather: the filter is built, expires_at > datetime.utcnow().
ReadBegins(forecast_date) ==
    /\ threads["reader"].pc = "idle"
    /\ threads' = [threads EXCEPT !["reader"].pc = "query", !["reader"].at = now,
                                  !["reader"].arg = <<forecast_date>>,
                                  !["reader"].results = <<>>]
    /\ ret' = <<>>
    /\ RaceFrame("get_cached_weather: filter")
    /\ UNCHANGED <<weather_data, inserted>>

\* results = query.all()
ReadQueries ==
    /\ threads["reader"].pc = "query"
    /\ threads' = [threads EXCEPT
          !["reader"].pc = "close",
          !["reader"].results =
              get_cached_weather_rows(weather_data, SweptLocation[1], SweptLocation[2],
                                      threads["reader"].arg[1], threads["reader"].at)]
    /\ ret' = <<>>
    /\ RaceFrame("get_cached_weather: all")
    /\ UNCHANGED <<weather_data, inserted>>

\* session.close(); return results
ReadReturns ==
    /\ threads["reader"].pc = "close"
    /\ threads' = [threads EXCEPT !["reader"].pc = "idle"]
    /\ ret' = threads["reader"].results
    /\ RaceFrame("get_cached_weather")
    /\ UNCHANGED <<weather_data, inserted>>

\* cache_weather_data: expires_at = datetime.utcnow() + timedelta(hours=...)
PutBegins(weather_list) ==
    /\ threads["writer"].pc = "idle"
    /\ inserted + Len(weather_list) <= row_budget
    /\ threads' = [threads EXCEPT !["writer"].pc = "add", !["writer"].at = now,
                                  !["writer"].arg = weather_list]
    /\ ret' = <<>>
    /\ RaceFrame("cache_weather_data: expires_at")
    /\ UNCHANGED <<weather_data, inserted>>

\* The rows are built, each with fetched_at = datetime.utcnow() and the
\* expiry computed before, added to the session and committed.
PutCommits ==
    LET stored == cache_weather_data_rows(weather_data, SweptLocation[1], SweptLocation[2],
                                          threads["writer"].arg, threads["writer"].at)
        added == {[r EXCEPT !.fetched_at = now] : r \in stored \ weather_data}
    IN  /\ threads["writer"].pc = "add"
        /\ weather_data' = (stored \cap weather_data) \cup added
        /\ inserted' = inserted + Len(threads["writer"].arg)
        /\ threads' = [threads EXCEPT !["writer"].pc = "idle", !["writer"].arg = <<>>,
                                      !["writer"].log = @ \cup added]
        /\ ret' = <<>>
        /\ RaceFrame("cache_weather_data")

\* cleanup_expired_weather_data: the filter is built, expires_at <= utcnow().
SweepBegins ==
    /\ threads["sweeper"].pc = "idle"
    /\ threads' = [threads EXCEPT !["sweeper"].pc = "delete", !["sweeper"].at = now,
                                  !["sweeper"].seen = weather_data]
    /\ ret' = <<>>
    /\ RaceFrame("cleanup_expired_weather_data: filter")
    /\ UNCHANGED <<weather_data, inserted>>

\* .delete(); session.commit(); session.close()
SweepCommits ==
    /\ threads["sweeper"].pc = "delete"
    /\ weather_data' = sweep_commit(weather_data, threads["sweeper"].seen,
                                    threads["sweeper"].at)
    /\ threads' = [threads EXCEPT !["sweeper"].pc = "idle", !["sweeper"].seen = {},
                                  !["sweeper"].log = @ \cup {threads["sweeper"].at}]
    /\ ret' = <<>>
    /\ RaceFrame("cleanup_expired_weather_data")
    /\ UNCHANGED inserted

InitRace ==
    /\ now = 0
    /\ lastOp = NoOp
    /\ ret = <<>>
    /\ sync_queue = {}
    /\ enq_order = <<>>
    /\ retry_limit = DEFAULT_RETRY_LIMIT
    /\ fail_call = NoCall
    /\ db_error = FALSE
    /\ threads = [t \in Racers |-> IdleRacer]
    /\ InitConn
    /\ InitCache

NextRace ==
    \/ \E d \in {NoDate, Today(now)} : ReadBegins(d)
    \/ ReadQueries
    \/ ReadReturns
    \/ \E l \in WeatherLists(Today(now)) : PutBegins(l)
    \/ PutCommits
    \/ SweepBegins
    \/ SweepCommits
    \/ Tick

\* A reader, a writer and a sweeper interleaved on one key, while rows expire.
SpecRace == InitRace /\ [][NextRace]_vars

\* ------------------------------------------------- cache: gets among the puts
NextAppendOnly ==
    \/ \E ok \in BOOLEAN : GetCachedSoilData(SweptLocation, ok)
    \/ \E ok \in BOOLEAN : CacheSoilData(SweptLocation, ok)
    \/ \E d \in {NoDate, Today(now)}, ok \in BOOLEAN :
           GetCachedWeather(SweptLocation, d, ok)
    \/ \E l \in WeatherLists(Today(now)), ok \in BOOLEAN :
           CacheWeatherData(SweptLocation, l, ok)
    \/ \E c \in Commodities, s \in States \cup {NoState}, ok \in BOOLEAN :
           GetCachedMarketPrices(c, s, ok)
    \/ \E l \in SweptMarketLists(Today(now)), ok \in BOOLEAN : CacheMarketData(l, ok)
    \/ \E f \in FieldIds \cup {NoField}, ok \in BOOLEAN : GetCachedRecommendations(f, ok)
    \/ \E l \in RecommendationLists, ok \in BOOLEAN : CacheRecommendations(l, NoField, ok)
    \/ \E failing \in {0, StatsQueries} : GetCacheStats(failing)
    \/ Tick

\* Gets and puts of every kind for one key, while rows expire.
SpecAppendOnly == InitSweepTwice /\ [][NextAppendOnly]_vars

\* ============================================================ weather service
\* The record a cached row is served as (the payload columns are left out).
convert_cached_to_dict(cached_obj) == [forecast_date |-> cached_obj.forecast_date]

\* What the live API answers on success.
fetch_current_weather(t) == [forecast_date |-> Today(t)]
fetch_forecast(t, days) == Forecast(Today(t), days)

Min(a, b) == IF a < b THEN a ELSE b

DaysArgs == (1..MaxBatch) \cup {MaxForecastDays + 1}

\* ok[1]: the first cache read, ok[2]: the cache write, ok[3]: the fallback read
StorageOutcomes == [1..3 -> BOOLEAN]

\* rows: the cached rows served; cached: what the first cache read returned;
\* all_cached: what the fallback read returned.
WsCall(op, loc, days, force_refresh, fetch, source, db_ok, rows, cached, all_cached) ==
    [op |-> op, latitude |-> loc[1], longitude |-> loc[2], days |-> days,
     force_refresh |-> force_refresh, fetch |-> fetch, source |-> source,
     db_ok |-> db_ok, rows |-> rows, cached |-> cached, all_cached |-> all_cached]

\* What a WeatherService call leaves besides weather_data, ret and ws_call.
WsFrame(op, n) ==
    /\ lastOp' = op
    /\ inserted' = inserted + n
    /\ sweep_call' = <<>>
    /\ put_call' = NoPut
    /\ UNCHANGED <<now, soil_data, market_data, recommendations, outsideCache>>

\* A service that goes to the live API whatever the cache holds.
current_weather_cache_hit_never(cached) == FALSE

\* `if cached:` of get_current_weather.
current_weather_cache_hit(cached) == cached # <<>>

GetCurrentWeather(loc, force_refresh, reachable, ok) ==
    LET cached == IF force_refresh \/ ~ok[1] THEN <<>>
                  ELSE get_cached_weather_rows(weather_data, loc[1], loc[2],
                                               Today(now), now)
        all_cached == IF ok[3]
                      THEN get_cached_weather_rows(weather_data, loc[1], loc[2],
                                                   NoDate, now)
                      ELSE <<>>
        weather_dict == fetch_current_weather(now)
    IN  IF current_weather_cache_hit(cached)
        THEN /\ ret' = <<convert_cached_to_dict(cached[1])>>
             /\ ws_call' = WsCall("get_current_weather", loc, 1, force_refresh, "none",
                                  "cache", TRUE, <<cached[1]>>, cached, <<>>)
             /\ UNCHANGED weather_data
             /\ WsFrame("get_current_weather", 0)
        ELSE IF reachable
        THEN /\ inserted + 1 <= row_budget
             /\ weather_data' = IF ok[2]
                                THEN cache_weather_data_rows(weather_data, loc[1], loc[2],
                                                             <<weather_dict>>, now)
                                ELSE weather_data
             /\ ret' = <<weather_dict>>
             /\ ws_call' = WsCall("get_current_weather", loc, 1, force_refresh, "ok",
                                  "api", (force_refresh \/ ok[1]) /\ ok[2], <<>>, cached, <<>>)
             /\ WsFrame("get_current_weather", IF ok[2] THEN 1 ELSE 0)
        ELSE /\ ret' = IF all_cached # <<>>
                       THEN <<convert_cached_to_dict(all_cached[1])>>
                       ELSE <<>>
             /\ ws_call' = WsCall("get_current_weather", loc, 1, force_refresh, "failed",
                                  IF all_cached # <<>> THEN "fallback" ELSE "none",
                                  (force_refresh \/ ok[1]) /\ ok[3],
                                  IF all_cached # <<>> THEN <<all_cached[1]>> ELSE <<>>,
                                  cached, all_cached)
             /\ UNCHANGED weather_data
             /\ WsFrame("get_current_weather", 0)

\* cached[:days]
Take(list, n) == SubSeq(list, 1, Min(n, Len(list)))

\* A variant of the cache test of get_forecast that serves whatever is cached.
forecast_cache_hit_partial(cached, days) == cached # <<>>

\* get_forecast: cached and len(cached) >= days
forecast_cache_hit(cached, days) == cached # <<>> /\ Len(cached) >= days

GetForecast(loc, days_arg, force_refresh, reachable, ok) ==
    LET days == Min(days_arg, MaxForecastDays)
        cached == IF force_refresh \/ ~ok[1] THEN <<>>
                  ELSE get_cached_weather_rows(weather_data, loc[1], loc[2], NoDate, now)
        forecast_data == fetch_forecast(now, days)
    IN  IF forecast_cache_hit(cached, days)
        THEN /\ ret' = [i \in 1..Len(Take(cached, days)) |->
                           convert_cached_to_dict(Take(cached, days)[i])]
             /\ ws_call' = WsCall("get_forecast", loc, days_arg, force_refresh, "none",
                                  "cache", TRUE, Take(cached, days), cached, <<>>)
             /\ UNCHANGED weather_data
             /\ WsFrame("get_forecast", 0)
        ELSE IF reachable
        THEN /\ inserted + days <= row_budget
             /\ weather_data' = IF ok[2]
                                THEN cache_weather_data_rows(weather_data, loc[1], loc[2],
                                                             forecast_data, now)
                                ELSE weather_data
             /\ ret' = forecast_data
             /\ ws_call' = WsCall("get_forecast", loc, days_arg, force_refresh, "ok",
                                  "api", (force_refresh \/ ok[1]) /\ ok[2], <<>>, cached, <<>>)
             /\ WsFrame("get_forecast", IF ok[2] THEN days ELSE 0)
        ELSE /\ ret' = <<>>
             /\ ws_call' = WsCall("get_forecast", loc, days_arg, force_refresh, "failed",
                                  "none", force_refresh \/ ok[1], <<>>, cached, <<>>)
             /\ UNCHANGED weather_data
             /\ WsFrame("get_forecast", 0)

NextWeather ==
    \/ \E loc \in Locations, force_refresh \in BOOLEAN, reachable \in BOOLEAN,
          ok \in StorageOutcomes : GetCurrentWeather(loc, force_refresh, reachable, ok)
    \/ \E loc \in Locations, days \in DaysArgs, force_refresh \in BOOLEAN,
          reachable \in BOOLEAN, ok \in StorageOutcomes :
           GetForecast(loc, days, force_refresh, reachable, ok)
    \/ \E ok \in BOOLEAN : CleanupExpiredWeatherData(ok)
    \/ Tick

\* The weather service over its cache, the live API answering or not.
SpecWeather == Init /\ [][NextWeather]_vars

\* The weather service started at any hour of the day: a row stored in the
\* evening is still fresh after midnight.
InitAnyHour ==
    /\ now \in 0..(HoursPerDay - 1)
    /\ lastOp = NoOp
    /\ ret = <<>>
    /\ sync_queue = {}
    /\ enq_order = <<>>
    /\ retry_limit = DEFAULT_RETRY_LIMIT
    /\ fail_call = NoCall
    /\ db_error = FALSE
    /\ threads = NoThreads
    /\ InitConn
    /\ InitCache

SpecAnyHour == InitAnyHour /\ [][NextWeather]_vars

\* --------------------------------------------------- weather: forecasts
\* Forecast lengths asked for: a short one, and one beyond the longest served.
ForecastDays == {3, MaxForecastDays + 1}
\* get_forecast makes no fallback read.
ForecastStorageOutcomes == {ok \in StorageOutcomes : ok[3]}

InitForecast ==
    /\ now = 0
    /\ lastOp = NoOp
    /\ ret = <<>>
    /\ sync_queue = {}
    /\ enq_order = <<>>
    /\ retry_limit = DEFAULT_RETRY_LIMIT
    /\ fail_call = NoCall
    /\ db_error = FALSE
    /\ threads = NoThreads
    /\ InitConn
    /\ InitTables
    /\ row_budget = MaxForecastRows
    /\ cache_ttl = DefaultTTL

NextForecast ==
    \/ \E loc \in Locations, days \in ForecastDays, force_refresh \in BOOLEAN,
          reachable \in BOOLEAN, ok \in ForecastStorageOutcomes :
           GetForecast(loc, days, force_refresh, reachable, ok)
    \/ \E ok \in BOOLEAN : CleanupExpiredWeatherData(ok)
    \/ Tick

\* Forecast requests of several lengths over the weather cache.
SpecForecast == InitForecast /\ [][NextForecast]_vars

\* ------------------------------------------------ weather: the TTL scenario
\* A forecast of ScenarioRecords days for one place, read back hour by hour.
ScenarioRecords == 5
ScenarioLocation == <<286, 772>>

InitScenario ==
    /\ now = 0
    /\ lastOp = NoOp
    /\ ret = <<>>
    /\ sync_queue = {}
    /\ enq_order = <<>>
    /\ retry_limit = DEFAULT_RETRY_LIMIT
    /\ fail_call = NoCall
    /\ db_error = FALSE
    /\ threads = NoThreads
    /\ InitConn
    /\ InitTables
    /\ row_budget = ScenarioBatches * ScenarioRecords
    /\ cache_ttl = DefaultTTL

\* An hour passes.
HourTick ==
    /\ now < ScenarioHorizon
    /\ now' = now + 1
    /\ lastOp' = "tick"
    /\ ret' = <<>>
    /\ sweep_call' = <<>>
    /\ ws_call' = NoWsCall
    /\ put_call' = NoPut
    /\ UNCHANGED <<tables, inserted, outsideCache>>

NextScenario ==
    \/ CacheWeatherData(ScenarioLocation, Forecast(Today(now), ScenarioRecords), TRUE)
    \/ GetCachedWeather(ScenarioLocation, NoDate, TRUE)
    \/ \E force_refresh \in BOOLEAN, ok \in StorageOutcomes :
           GetCurrentWeather(ScenarioLocation, force_refresh, FALSE, ok)
    \/ HourTick

\* The weather cache of one place while the live API is down.
SpecScenario == InitScenario /\ [][NextScenario]_vars

\* =================================================================== claims
MarkOps == {"mark_sync_as_syncing", "mark_sync_as_completed", "mark_sync_as_failed"}

\* C5: completed and failed are terminal: a mark_sync_as_syncing,
\* mark_sync_as_completed or mark_sync_as_failed call leaves the status and the
\* retry_count of every completed or failed item as they were.
C5_TerminalStatuses ==
    [][lastOp' \in MarkOps =>
        \A r \in sync_queue :
            r.status \in {"completed", "failed"} =>
                \E q \in sync_queue' :
                    /\ q.id = r.id
                    /\ q.status = r.status
                    /\ q.retry_count = r.retry_count]_vars

\* The status changes the state machine of a SyncItem allows.
AllowedTransition(from, to) ==
    \/ from = "pending" /\ to = "syncing"
    \/ from = "syncing" /\ to \in {"completed", "pending", "failed"}

\* C6: the status of an item changes only along pending -> syncing ->
\* {completed, pending, failed}; no call moves an item pending -> completed or
\* pending -> failed directly.
C6_OnlyStateMachineTransitions ==
    [][lastOp' \in MarkOps =>
        \A r \in sync_queue : \A q \in sync_queue' :
            (q.id = r.id /\ q.status # r.status) =>
                AllowedTransition(r.status, q.status)]_vars

\* What C7 says of one item under the retry limit of the drain.
FailedExactlyAtLimit(r) ==
    /\ r.status = "failed" => r.retry_count = retry_limit
    /\ (r.retry_count >= 1 /\ r.retry_count = retry_limit) => r.status = "failed"
    /\ r.retry_count < retry_limit => r.status # "failed"

\* C7 as stated, for every retry_limit: under dispatch-then-fail cycles an item is
\* failed exactly when its retry_count equals the retry limit.
C7_FailedExactlyAtLimit_AnyLimit ==
    \A r \in sync_queue : FailedExactlyAtLimit(r)

\* C7, amended to retry limits of at least 1: under dispatch-then-fail cycles with
\* one retry_limit >= 1, an item is failed exactly when its retry_count equals
\* retry_limit, and is not failed while retry_count < retry_limit.
C7_FailedExactlyAtLimit ==
    retry_limit >= 1 => \A r \in sync_queue : FailedExactlyAtLimit(r)

\* C7 witness: an item was failed at the default limit after returning to pending
\* on the earlier failures.
C7_Witness ==
    /\ retry_limit = DEFAULT_RETRY_LIMIT
    /\ lastOp = "mark_sync_as_failed"
    /\ \E r \in sync_queue : r.status = "failed" /\ r.retry_count = DEFAULT_RETRY_LIMIT

\* C8: one successful mark_sync_as_failed(id, limit) call on an existing item adds
\* exactly 1 to its retry_count and then sets its status to failed when the new
\* count is >= limit and to pending otherwise (limit 3: from 2 failed, from 1
\* pending); nothing else of the item changes.
C8_FailIncrementsThenDecides ==
    \A r \in fail_call.found :
        \E q \in sync_queue :
            /\ q = [r EXCEPT !.retry_count = q.retry_count, !.status = q.status]
            /\ q.retry_count = r.retry_count + 1
            /\ q.status = IF q.retry_count >= fail_call.limit THEN "failed"
                          ELSE "pending"
            /\ (fail_call.limit = 3 /\ r.retry_count = 2) => q.status = "failed"
            /\ (fail_call.limit = 3 /\ r.retry_count = 1) => q.status = "pending"

\* C8 witness: a fail call with limit 3 has just taken an item from retry_count 2
\* to failed, after earlier fail calls had returned it to pending.
C8_Witness ==
    /\ lastOp = "mark_sync_as_failed"
    /\ fail_call.limit = 3
    /\ \E r \in fail_call.found : r.retry_count = 2 /\ r.status = "syncing"
    /\ \E q \in sync_queue : q.id = fail_call.id /\ q.status = "failed"

\* Position of an id in the enqueue order.
EnqPos(id) == CHOOSE i \in 1..Len(enq_order) : enq_order[i] = id

C4_OfflineIsManualOrUnreachable ==
    Len(probes) > 0 =>
        (is_offline <=> (offline_mode \/ ~probes[Len(probes)]))

\* The values at which a state that starts as `state` changes under a sequence
\* of probe results: one entry per change, none for a repeated result.
RECURSIVE Changes(_, _)
Changes(state, results) ==
    IF results = <<>> THEN <<>>
    ELSE IF Head(results) # state
         THEN <<Head(results)>> \o Changes(Head(results), Tail(results))
         ELSE Changes(state, Tail(results))

\* C10: under sequential probes every registered callback is invoked exactly once
\* per change of is_online, with the new value, and not by a probe whose result
\* equals the current is_online: the values it received since it registered are
\* exactly the changes of the probe results since then.
C10_CallbackOncePerChange ==
    \A i \in 1..Len(connectivity_callbacks) :
        LET cb == connectivity_callbacks[i]
        IN  cb_log[cb] =
                Changes(reg_base[cb].online,
                        SubSeq(probes, reg_base[cb].at + 1, Len(probes)))

\* C10 witness: a callback registered while offline has seen three consecutive
\* successful probes and was invoked with true exactly once.
C10_Witness ==
    /\ lastOp = "check_connectivity"
    /\ \E i \in 1..Len(connectivity_callbacks) :
          LET cb == connectivity_callbacks[i]
          IN  /\ reg_base[cb] = [at |-> 0, online |-> FALSE]
              /\ probes = <<TRUE, TRUE, TRUE>>
              /\ cb_log[cb] = <<TRUE>>

ReadOps == {"get_cached_soil_data", "get_cached_weather", "get_cached_market_prices",
            "get_cached_recommendations"}

\* C1: every cache read (soil, weather, market, recommendations) at time now
\* returns only rows with now < expires_at, whether or not a sweep has removed
\* the rows that are past their expiry.
C1_ReadsReturnOnlyFreshRows ==
    lastOp \in ReadOps => \A i \in 1..Len(ret) : now < ret[i].expires_at

\* A weather read served a row while a row of the same location that expires
\* at this very instant is still stored.
C1_Witness ==
    /\ lastOp = "get_cached_weather"
    /\ ret # <<>>
    /\ \E r \in weather_data : /\ r.latitude = ret[1].latitude
                               /\ r.longitude = ret[1].longitude
                               /\ r.expires_at = now

TableNamed(name) ==
    CASE name = "soil_data" -> soil_data
      [] name = "weather_data" -> weather_data
      [] name = "market_data" -> market_data
      [] name = "recommendations" -> recommendations

\* C2: a successful sweep of one kind at time now deletes every row of that
\* kind with expires_at <= now and no row with now < expires_at: afterwards the
\* kind's table holds exactly the rows that had expires_at > now.
C2_SweepKeepsExactlyFreshRows ==
    \A i \in 1..Len(sweep_call) :
        TableNamed(sweep_call[i].table) =
            {r \in sweep_call[i].before : now < r.expires_at}

\* A sweep met a row expiring at this very instant next to one still fresh.
C2_Witness ==
    /\ lastOp = "cleanup_expired_weather_data"
    /\ Len(sweep_call) = 1
    /\ \E r \in sweep_call[1].before : r.expires_at = now
    /\ \E r \in sweep_call[1].before : r.expires_at > now

FreshFor(latitude, longitude) ==
    {r \in weather_data : r.latitude = latitude /\ r.longitude = longitude
                          /\ now < r.expires_at}
ExpiredFor(latitude, longitude) ==
    {r \in weather_data : r.latitude = latitude /\ r.longitude = longitude
                          /\ r.expires_at <= now}

\* C3: when the live fetch fails and no fresh weather row exists for the
\* location, the service returns the data of the most recently fetched expired
\* row for that location, if any, instead of nothing.
C3_FallbackServesExpiredRow ==
    LET stale == ExpiredFor(ws_call.latitude, ws_call.longitude)
    IN  (/\ ws_call.op \in {"get_current_weather", "get_forecast"}
         /\ ws_call.fetch = "failed"
         /\ ws_call.db_ok
         /\ FreshFor(ws_call.latitude, ws_call.longitude) = {}
         /\ stale # {})
        => /\ ret # <<>>
           /\ \E r \in stale :
                  /\ \A o \in stale : o.fetched_at <= r.fetched_at
                  /\ \A i \in 1..Len(ret) : ret[i] = convert_cached_to_dict(r)

\* C11: the system starts offline, so the first successful probe of the
\* polling loop is an offline-to-online transition: the callbacks registered
\* with the OfflineManager are notified with TRUE, exactly as the
\* ConnectivityManager notifies its own subscribers on that probe.
C11_FirstSuccessfulProbeNotifies ==
    (lastOp = "monitor_connectivity" /\ probes = <<TRUE>>)
    => /\ is_online
       /\ sync_notified = check_connectivity_calls(FALSE, TRUE, sync_callbacks)

\* C12: the manual toggles raise no connectivity notification: a polling
\* iteration whose probe result equals the previous probe result invokes no
\* callback of the OfflineManager, also right after a manual toggle.
C12_NoNotificationOnSteadyProbe ==
    (/\ lastOp = "monitor_connectivity"
     /\ Len(probes) >= 2
     /\ probes[Len(probes)] = probes[Len(probes) - 1])
    => sync_notified = <<>>

\* C13: delivery is at least once: with a drain running whenever connectivity
\* returns, every enqueued item eventually reaches completed or failed, also
\* an item a drain left in syncing when it was interrupted.
C13_EveryItemEventuallySettled ==
    \A id \in SyncIds :
        [](SyncItem(sync_queue, id) # {}
           => <>(\E r \in SyncItem(sync_queue, id) : r.status \in {"completed", "failed"}))

\* The payload columns of a cached row: what the caller put.
Payload(table, r) ==
    CASE table = "weather_data" -> [forecast_date |-> r.forecast_date]
      [] table = "market_data" -> [commodity_name |-> r.commodity_name,
                                   state |-> r.state, price_date |-> r.price_date]
      [] table = "recommendations" -> [rank |-> r.rank]

\* C14: round trip: for every cache kind, key and store state, a put followed
\* at once by a get for the same key returns the payload set that was put; for
\* soil, whose get returns one row, the record that was just put.
C14_PutThenGetReturnsWhatWasPut ==
    put_call.table # "none"
    => IF put_call.table = "soil_data"
       THEN Len(ret) = 1 /\ ret[1] \in put_call.rows
       ELSE {Payload(put_call.table, ret[i]) : i \in 1..Len(ret)}
                = {Payload(put_call.table, r) : r \in put_call.rows}

\* The store holds one forecast of ScenarioRecords distinct dates, put at t.
OneForecastPutAt(t) ==
    /\ Cardinality(weather_data) = ScenarioRecords
    /\ Cardinality({r.forecast_date : r \in weather_data}) = ScenarioRecords
    /\ \A r \in weather_data : /\ r.fetched_at = t
                                /\ r.expires_at = t + WEATHER_CACHE_HOURS
                                /\ <<r.latitude, r.longitude>> = ScenarioLocation

\* C15: the weather TTL scenario: with 5 records of 5 distinct dates put for
\* one location and a TTL of 6 hours, the unfiltered get returns all 5 one
\* hour later and nothing 7 hours later, while the fallback read 7 hours
\* later returns the 5 stale records.
C15_WeatherTtlScenario ==
    \A t \in 0..ScenarioHorizon :
        OneForecastPutAt(t)
        => /\ (lastOp = "get_cached_weather" /\ now = t + 1)
                 => SeqToSet(ret) = weather_data
           /\ (lastOp = "get_cached_weather" /\ now = t + 7) => ret = <<>>
           /\ (/\ lastOp = "get_current_weather"
               /\ ws_call.fetch = "failed"
               /\ ws_call.db_ok
               /\ now = t + 7)
                 => SeqToSet(ws_call.all_cached) = weather_data

\* The two reads of the scenario that go through the freshness filter.
C15_FreshReadsOfScenario ==
    \A t \in 0..ScenarioHorizon :
        OneForecastPutAt(t)
        => /\ (lastOp = "get_cached_weather" /\ now = t + 1)
                 => SeqToSet(ret) = weather_data
           /\ (lastOp = "get_cached_weather" /\ now = t + 7) => ret = <<>>

\* C16: get_forecast(days) without force_refresh serves from the cache only
\* when at least min(days, 7) fresh rows exist for the location; with fewer it
\* serves none of them and invokes the live fetch, and a result built from
\* cached rows is never shorter than min(days, 7).
C16_ForecastAllOrNothing ==
    LET days == Min(ws_call.days, MaxForecastDays)
        fresh == FreshFor(ws_call.latitude, ws_call.longitude)
    IN  (ws_call.op = "get_forecast" /\ ~ws_call.force_refresh)
        => /\ ws_call.source = "cache"
                 => /\ Cardinality(fresh) >= days
                    /\ SeqToSet(ws_call.rows) \subseteq fresh
                    /\ Len(ret) = days
                    /\ ws_call.fetch = "none"
           /\ Len(ws_call.cached) < days
                 => /\ ws_call.fetch # "none"
                    /\ ws_call.rows = <<>>
           /\ (ws_call.fetch = "failed" /\ ws_call.db_ok)
                 => Cardinality(fresh) < days /\ ret = <<>>

\* A forecast of more than 7 days was served from 7 fresh cached rows.
C16_Witness ==
    /\ ws_call.op = "get_forecast"
    /\ ws_call.days = MaxForecastDays + 1
    /\ ws_call.source = "cache"
    /\ Len(ret) = MaxForecastDays

\* The invocations list every callback of the list once, in list order, each
\* with the same value.
InListOrder(calls, callbacks, value) ==
    /\ Len(calls) = Len(callbacks)
    /\ \A i \in 1..Len(calls) : calls[i] = <<callbacks[i], value>>

\* C17: when a notification is made, every registered callback is invoked, in
\* registration order, whichever of them raise: a polling iteration that
\* notifies the subscribers of the ConnectivityManager invokes all of its
\* callbacks in list order, and one that notifies the subscribers of the
\* OfflineManager invokes all of its callbacks in list order.
C17_RaisingCallbackSkipsNobody ==
    lastOp = "monitor_connectivity"
    => /\ notified # <<>> =>
              InListOrder(notified, connectivity_callbacks, is_online)
       /\ sync_notified # <<>> =>
              InListOrder(sync_notified, sync_callbacks, ~is_offline)

\* Both managers have just notified two subscribers of which the first
\* registered raises.
C17_Witness ==
    /\ lastOp = "monitor_connectivity"
    /\ Len(connectivity_callbacks) = 2
    /\ connectivity_callbacks[1] \in raising
    /\ Len(notified) = 2
    /\ notified[2][1] = connectivity_callbacks[2]
    /\ Len(sync_callbacks) = 2
    /\ sync_callbacks[1] \in raising
    /\ Len(sync_notified) = 2
    /\ sync_notified[2][1] = sync_callbacks[2]

\* The last step was a loop iteration that failed: its probe found the
\* network unreachable, its body raised, or it invoked a callback that raised.
FailedIteration ==
    \/ lastOp = "monitor_connectivity_error"
    \/ /\ lastOp = "monitor_connectivity"
       /\ \/ ~probes[Len(probes)]
          \/ \E i \in 1..Len(sync_notified) : sync_notified[i][1] \in raising

\* No failed iteration ends the polling thread, and while no stop is
\* requested a further iteration follows it (as far as the run counts
\* iterations).
C18_LoopSurvivesFailures ==
    /\ [][(lastOp' \in {"monitor_connectivity", "monitor_connectivity_error"})
            => loops' = loops]_vars
    /\ \A n \in 1..(MaxProbes - 1) :
          [](FailedIteration /\ Len(sleeps) = n
               => <>(Len(sleeps) > n \/ stop_checking))

\* C18: the polling loop never terminates because of a failed probe or an
\* exception raised inside an iteration: while no stop is requested a further
\* iteration eventually runs, and the wait before it on the exception path
\* is the back-off of 60 seconds, longer than the wait of an iteration that
\* did not raise.
C18_LoopSurvivesAndBacksOffLonger ==
    /\ C18_LoopSurvivesFailures
    /\ [](lastOp = "monitor_connectivity_error"
            => /\ sleeps[Len(sleeps)] = 60
               /\ \A i \in 1..Len(sleeps) :
                     sleeps[i] # sleeps[Len(sleeps)] => sleeps[i] < sleeps[Len(sleeps)])

\* C19: once the stop signal is set, no polling thread begins another
\* iteration while it stays set, and unless monitoring is restarted every
\* polling thread eventually ends; stop_connectivity_monitoring sets the
\* signal and returns without waiting for the threads to end (its join gives
\* up after 5 seconds).
C19_StopEndsTheLoop ==
    /\ [][stop_checking => Len(sleeps') = Len(sleeps)]_vars
    /\ [](stop_checking => <>(loops = 0 \/ ~stop_checking))
    /\ [][lastOp' = "stop_connectivity_monitoring"
            => stop_checking' /\ loops' = loops]_vars

\* A polling thread that had run iterations was stopped while it was asleep,
\* outlived the call that stopped it, and then ended.
C19_Witness ==
    /\ lastOp = "monitor_exit"
    /\ stop_checking
    /\ loops = 0
    /\ Len(sleeps) > 0

\* C20: a queue_for_sync call that reaches the store adds exactly one row, with
\* a new id, status pending and retry_count 0, and leaves every stored row as
\* it was, also when a pending row for the same entity and action is already
\* stored.
C20_EnqueueAddsExactlyOne ==
    [][(lastOp' = "queue_for_sync" /\ Len(enq_order') > Len(enq_order))
        => /\ sync_queue \subseteq sync_queue'
           /\ Cardinality(sync_queue' \ sync_queue) = 1
           /\ \A r \in sync_queue' \ sync_queue :
                 /\ r.status = "pending"
                 /\ r.retry_count = 0
                 /\ \A q \in sync_queue : q.id # r.id]_vars

\* Two enqueues for one entity and action have left two pending rows.
C20_Witness ==
    /\ lastOp = "queue_for_sync"
    /\ \E r \in sync_queue : \E q \in sync_queue :
          /\ r.id # q.id
          /\ r.status = "pending" /\ q.status = "pending"
          /\ r.retry_count = 0 /\ q.retry_count = 0
          /\ r.entity_type = q.entity_type
          /\ r.entity_id = q.entity_id
          /\ r.action = q.action

\* C21: a clear_completed_syncs call that reaches the store deletes every
\* completed row and nothing else: the pending, syncing and failed rows are
\* all still stored, each exactly as it was.
C21_ClearDeletesOnlyCompleted ==
    [][(lastOp' = "clear_completed_syncs" /\ ~db_error')
        => sync_queue' = {r \in sync_queue : r.status # "completed"}]_vars

\* A purge has just deleted the completed first item and kept a later item
\* that is failed.
C21_Witness ==
    /\ lastOp = "clear_completed_syncs"
    /\ ~db_error
    /\ \E r \in sync_queue : r.id = 2 /\ r.status = "failed" /\ r.retry_count > 0
    /\ \A r \in sync_queue : r.id # 1

\* C22: with one retry limit L >= 1 passed to every fail call, no stored item
\* ever has a retry_count above L, whatever queue operations are called.
C22_RetriesBounded ==
    retry_limit >= 1 => \A r \in sync_queue : r.retry_count <= retry_limit

\* The sync queue operations.
QueueOps == {"queue_for_sync", "get_pending_syncs", "get_failed_syncs", "get_sync_stats",
             "mark_sync_as_syncing", "mark_sync_as_completed", "mark_sync_as_failed",
             "clear_completed_syncs"}

\* C23: a sync queue operation that meets a storage error still returns, with
\* the neutral result (the empty list, the empty mapping, nothing), and the
\* stored queue is as it was before the call.
C23_StorageErrorIsNeutral ==
    [][db_error' => /\ lastOp' \in QueueOps
                    /\ sync_queue' = sync_queue
                    /\ DOMAIN ret' = {}]_vars

\* A purge met a storage error with a completed item stored, which is still
\* stored.
C23_Witness ==
    /\ db_error
    /\ lastOp = "clear_completed_syncs"
    /\ \E r \in sync_queue : r.status = "completed"

\* Position of a table in the order of the sweeps.
SweepPos(name) == CHOOSE i \in 1..Len(SweepOrder) : SweepOrder[i] = name

\* C24: cleanup_all_expired_cache sweeps soil, weather, market and
\* recommendations in that order, and a storage failure in one sweep neither
\* reaches the caller nor keeps the following sweeps from running: the sweeps
\* that committed are in that order and are all the kinds but at most the one
\* that failed.
C24_CleanupAllSweepsEveryKind ==
    lastOp = "cleanup_all_expired_cache"
    => /\ Len(sweep_call) >= Len(SweepOrder) - 1
       /\ \A i \in 1..Len(sweep_call) : \A j \in 1..Len(sweep_call) :
             i < j => SweepPos(sweep_call[i].table) < SweepPos(sweep_call[j].table)

\* The weather sweep of a cleanup failed, and the sweeps after it ran: the
\* recommendations sweep deleted an expired row.
C24_Witness ==
    /\ lastOp = "cleanup_all_expired_cache"
    /\ Len(sweep_call) = 3
    /\ sweep_call[1].table = "soil_data"
    /\ sweep_call[2].table = "market_data"
    /\ sweep_call[3].table = "recommendations"
    /\ \E r \in sweep_call[3].before : Expired(r, now) /\ r \notin recommendations

\* The stored table of a name.
StoredTable(name) ==
    CASE name = "soil_data" -> soil_data
      [] name = "weather_data" -> weather_data
      [] name = "market_data" -> market_data
      [] name = "recommendations" -> recommendations

SweepOps == {"cleanup_expired_soil_data", "cleanup_expired_weather_data",
             "cleanup_expired_market_data", "cleanup_expired_recommendations"}

\* C26: a sweep of one kind that succeeds returns the number of rows it
\* deleted.
C26_SweepReturnsDeletedCount ==
    (lastOp \in SweepOps /\ sweep_call # <<>>)
    => ret = <<Cardinality(sweep_call[1].before)
               - Cardinality(StoredTable(sweep_call[1].table))>>

\* C27: get_cache_stats changes no cache row, and what it returns is either
\* the mapping with the row count of every kind and their total, or, when any
\* of its queries raised, the empty mapping; never a mapping of some kinds.
C27_StatsAllOrNothing ==
    [][lastOp' = "get_cache_stats"
        => /\ tables' = tables
           /\ \/ ret' = <<>>
              \/ /\ Len(ret') = 1
                 /\ DOMAIN ret'[1] = {StatsKeys[i] : i \in 1..Len(StatsKeys)}
                 /\ ret'[1].soil_entries = Cardinality(soil_data)
                 /\ ret'[1].weather_entries = Cardinality(weather_data)
                 /\ ret'[1].market_entries = Cardinality(market_data)
                 /\ ret'[1].recommendation_entries = Cardinality(recommendations)
                 /\ ret'[1].total_entries =
                        Cardinality(soil_data) + Cardinality(weather_data)
                        + Cardinality(market_data) + Cardinality(recommendations)]_vars

\* A query of get_cache_stats raised with rows of two kinds stored: the call
\* returned the empty mapping.
C27_Witness ==
    /\ lastOp = "get_cache_stats"
    /\ ret = <<>>
    /\ soil_data # {}
    /\ weather_data # {}

\* C28: every stored cache row expires after the instant recorded as its
\* fetch (for a recommendation, its generation), whatever lifetime is
\* configured for its kind and however many rows the put stored.
C28_ExpiresAfterFetched ==
    /\ \A r \in soil_data \cup weather_data \cup market_data : r.expires_at > r.fetched_at
    /\ \A r \in recommendations : r.expires_at > r.generated_at

CacheGets == {"get_cached_soil_data", "get_cached_weather", "get_cached_market_prices",
              "get_cached_recommendations", "get_cache_stats"}

CachePuts == {"cache_soil_data", "cache_weather_data", "cache_market_data",
              "cache_recommendations"}

\* C29: a get or a put of the cache leaves every row the store held in the
\* store and as it was: only a sweep removes rows, and nothing rewrites one.
C29_OnlySweepsDelete ==
    [][lastOp' \in CacheGets \cup CachePuts
        => /\ soil_data \subseteq soil_data'
           /\ weather_data \subseteq weather_data'
           /\ market_data \subseteq market_data'
           /\ recommendations \subseteq recommendations']_vars

\* A put for a location stored new weather rows next to the rows an earlier
\* put for the same location had stored, one of them expired by now.
C29_Witness ==
    /\ lastOp = "cache_weather_data"
    /\ \E r, q \in weather_data :
           /\ r.latitude = q.latitude
           /\ r.longitude = q.longitude
           /\ r.fetched_at < q.fetched_at
           /\ r.expires_at <= now
           /\ q.fetched_at = now

\* C30: a forecast served from the cache consists of rows with pairwise
\* distinct forecast dates, and no fresh row of the location left out of it
\* was fetched later than a row that is in it.
C30_ServedForecastIsLatestAndDistinct ==
    (ws_call.op = "get_forecast" /\ ws_call.source = "cache")
    => /\ \A i, j \in 1..Len(ws_call.rows) :
              i # j => ws_call.rows[i].forecast_date # ws_call.rows[j].forecast_date
       /\ \A i \in 1..Len(ws_call.rows), j \in 1..Len(ws_call.cached) :
              (\A k \in 1..Len(ws_call.rows) : ws_call.rows[k] # ws_call.cached[j])
              => ws_call.cached[j].fetched_at <= ws_call.rows[i].fetched_at

\* C31: no item is being dispatched by two dispatchers, and the retry_count
\* of every item is the number of mark_sync_as_failed calls committed for it.
C31_StatusTransitionsAreAtomic ==
    /\ \A d, e \in DOMAIN threads :
          d # e => threads[d].dispatching \cap threads[e].dispatching = {}
    /\ \A r \in sync_queue, d, e \in DOMAIN threads :
          d # e => r.retry_count = threads[d].fails[r.id] + threads[e].fails[r.id]

\* C32: between calls no session is open, and none is open while the live
\* fetch of the weather service is in progress.
C32_NoSessionOutlivesItsCall ==
    \A t \in DOMAIN threads :
       threads[t].call \in {"none", "_fetch_current_weather"}
       => threads[t].open_sessions = 0

\* C33: at most one polling loop is alive, whatever start and stop calls
\* were made.
C33_AtMostOnePollingLoop == loops <= 1

BatchPuts == {"cache_weather_data", "cache_market_data", "cache_recommendations"}

PutTable(op) ==
    IF op = "cache_weather_data" THEN weather_data
    ELSE IF op = "cache_market_data" THEN market_data ELSE recommendations

PutTTL(op) ==
    IF op = "cache_weather_data" THEN WeatherTTL
    ELSE IF op = "cache_market_data" THEN MarketTTL ELSE RecommendationTTL

\* C34: the rows one put of a batch inserts all expire at the instant of the
\* call plus the lifetime of their kind, and they are as many as the records.
C34_OneExpiryPerBatch ==
    [][\A op \in BatchPuts :
          lastOp' = op
          => /\ \A r \in PutTable(op)' \ PutTable(op) : r.expires_at = now + PutTTL(op)
             /\ Cardinality(PutTable(op)' \ PutTable(op)) = inserted' - inserted]_vars

\* A put stored a batch of two market rows.
C34_Witness ==
    /\ lastOp = "cache_market_data"
    /\ Cardinality({r \in market_data : r.fetched_at = now}) >= 2

C36_SweepRaceKeepsTheStoreSound ==
    /\ weather_data \subseteq threads["writer"].log
    /\ \A r \in threads["writer"].log \ weather_data :
          \E t \in threads["sweeper"].log : r.expires_at <= t
    /\ lastOp = "cleanup_expired_weather_data"
          => \A r \in weather_data : r.expires_at > threads["sweeper"].at
    /\ lastOp = "get_cached_weather"
          => \A i \in 1..Len(ret) :
                /\ ret[i] \in threads["writer"].log
                /\ ret[i].latitude = SweptLocation[1]
                /\ ret[i].longitude = SweptLocation[2]
                /\ ret[i].expires_at > threads["reader"].at

\* A read returned a row that a sweep, running between the read's query and
\* its return, had deleted from the store.
C36_Witness ==
    /\ lastOp = "get_cached_weather"
    /\ \E i \in 1..Len(ret) : ret[i] \notin weather_data

\* C37: an OfflineManager constructed while the settings row holds the
\* offline preference reports offline mode, and whenever the manual toggle
\* has just set the flag the settings row holds the preference.
C37_OfflinePreferenceSurvivesRestart ==
    /\ lastOp = "OfflineManager.__init__" => (offline_mode => is_offline)
    /\ (lastOp = "enable_offline_mode" /\ is_offline) => offline_mode

\* C38: with the polling thread and a foreground caller probing at once, a
\* registered callback is never invoked twice in a row with the same value;
\* when every probe found the network reachable (the one change from the
\* initial state) it is invoked at most once.
C38_OneNotificationPerChange ==
    \A cb \in Callbacks :
        InList(cb, connectivity_callbacks) =>
            /\ (\A i \in 1..Len(probes) : probes[i]) => Len(cb_log[cb]) <= 1
            /\ \A i \in 1..(Len(cb_log[cb]) - 1) : cb_log[cb][i] # cb_log[cb][i + 1]

\* C39: when _notify_connectivity_change returns, every callback that is still
\* registered has been invoked for this transition, whatever the callbacks
\* unregistered while the list was walked.
C39_NoSubscriberIsSkipped ==
    lastOp = "_notify_connectivity_change: return" =>
        \A cb \in Callbacks :
            InList(cb, connectivity_callbacks) => cb \in threads[Notifier].invoked

\* C40: the record get_current_weather returns from the cache, on the hit
\* path and on the fallback path after a failed fetch, is a row of the
\* requested location whose forecast_date is today's date.
C40_CurrentWeatherFromCacheIsTodays ==
    (lastOp = "get_current_weather" /\ ws_call.source \in {"cache", "fallback"}) =>
        \A i \in 1..Len(ws_call.rows) :
            /\ ws_call.rows[i].latitude = ws_call.latitude
            /\ ws_call.rows[i].longitude = ws_call.longitude
            /\ ws_call.rows[i].forecast_date = Today(now)
====
